---- MODULE Spec2Model ----
(***************************************************************************)
(* Model of the smart-install pipeline (SmartInstaller.install and its     *)
(* retrieval strategies) and of the marketplace SourceAggregator.          *)
(*                                                                         *)
(* Strings are sequences of one-character strings, so that substring       *)
(* tests, extensions and lower-casing are computed and not assumed.        *)
(* A filesystem path is a sequence of path components (strings).           *)
(***************************************************************************)
EXTENDS Integers, Sequences, FiniteSets, TLC

VARIABLES fs, workspaceFolders, inst, installs,
          sources, enabled, cache, now, call, calls, ops,
          req, ret

installerVars == <<fs, workspaceFolders, inst, installs>>
aggregatorVars == <<sources, enabled, cache, now, call, calls, ops>>
\* req: the argument of a call of a pure method; ret: what it returned
pureVars == <<req, ret>>
vars == <<fs, workspaceFolders, inst, installs,
          sources, enabled, cache, now, call, calls, ops, req, ret>>

(***************************************************************************)
(* Bounds of the model.                                                    *)
(***************************************************************************)
MaxInstalls == 2
MaxCalls == 2
MaxTicks == 2
MaxOps == 1
MaxLoads == 2

(***************************************************************************)
(* String helpers (String.prototype / path module).                        *)
(***************************************************************************)
upperCase == <<"A","B","C","D","E","F","G","H","I","J","K","L","M",
               "N","O","P","Q","R","S","T","U","V","W","X","Y","Z">>
lowerCase == <<"a","b","c","d","e","f","g","h","i","j","k","l","m",
               "n","o","p","q","r","s","t","u","v","w","x","y","z">>

toLowerChar(c) ==
    IF \E i \in 1..26 : upperCase[i] = c
    THEN lowerCase[CHOOSE i \in 1..26 : upperCase[i] = c]
    ELSE c

toLowerCase(s) == [i \in 1..Len(s) |-> toLowerChar(s[i])]

includes(s, t) ==
    \E i \in 1..(Len(s) - Len(t) + 1) : SubSeq(s, i, i + Len(t) - 1) = t

\* path.extname of one path component: from the last "." to the end; empty
\* when there is no "." or the only "." is the first character.
lastDot(s) ==
    IF \E i \in 1..Len(s) : s[i] = "."
    THEN CHOOSE i \in 1..Len(s) : s[i] = "." /\ \A j \in (i+1)..Len(s) : s[j] # "."
    ELSE 0

extname(s) == IF lastDot(s) <= 1 THEN <<>> ELSE SubSeq(s, lastDot(s), Len(s))

\* String literals used by the code and by the modelled remote content.
kw_skill == <<"s","k","i","l","l">>
kw_skills == <<"s","k","i","l","l","s">>
kw_agent == <<"a","g","e","n","t">>
kw_agents == <<"a","g","e","n","t","s">>
kw_subagent == <<"s","u","b","a","g","e","n","t">>
kw_subagents == <<"s","u","b","a","g","e","n","t","s">>
kw_command == <<"c","o","m","m","a","n","d">>
kw_commands == <<"c","o","m","m","a","n","d","s">>
kw_plugin == <<"p","l","u","g","i","n">>
kw_plugins == <<"p","l","u","g","i","n","s">>
kw_skill_md == <<"s","k","i","l","l",".","m","d">>
kw_agent_md == <<"a","g","e","n","t",".","m","d">>
kw_command_md == <<"c","o","m","m","a","n","d",".","m","d">>
ext_md == <<".","m","d">>
dot_git == <<".","g","i","t">>

Types == {"skill", "agent", "command", "plugin"}

(***************************************************************************)
(* Filesystem: a function from the existing paths to "dir" or, for a file, *)
(* its content.                                                            *)
(***************************************************************************)
IsPrefix(p, q) == Len(p) <= Len(q) /\ SubSeq(q, 1, Len(p)) = p

existsSync(f, p) == p \in DOMAIN f

isDirectory(f, p) == p \in DOMAIN f /\ f[p] = "dir"

dirname(p) == SubSeq(p, 1, Len(p) - 1)

basename(p) == p[Len(p)]

\* fs.mkdirSync(p, {recursive: true})
mkdirSync(f, p) ==
    LET made == {SubSeq(p, 1, n) : n \in 1..Len(p)} \ DOMAIN f
    IN  [q \in DOMAIN f \cup made |-> IF q \in made THEN "dir" ELSE f[q]]

\* fs.writeFileSync(p, content) and fs.copyFileSync(src, p)
writeFileSync(f, p, content) ==
    [q \in DOMAIN f \cup {p} |-> IF q = p THEN content ELSE f[q]]

\* fs.rmSync(p, {recursive: true, force: true}) and fs.unlinkSync(p)
rmSync(f, p) ==
    [q \in {r \in DOMAIN f : ~IsPrefix(p, r)} |-> f[q]]

\* fs.renameSync(src, dst): the whole subtree moves
renameSync(f, src, dst) ==
    LET moved == {r \in DOMAIN f : IsPrefix(src, r)}
        target(r) == dst \o SubSeq(r, Len(src) + 1, Len(r))
        kept == DOMAIN f \ moved
    IN  [q \in kept \cup {target(r) : r \in moved} |->
            IF \E r \in moved : target(r) = q
            THEN f[CHOOSE r \in moved : target(r) = q]
            ELSE f[q]]

\* fs.readdirSync(p): names of the direct children
readdirSync(f, p) ==
    {basename(q) : q \in {r \in DOMAIN f : Len(r) = Len(p) + 1 /\ IsPrefix(p, r)}}

(***************************************************************************)
(* Names, roots and descriptors.  Every descriptor below is what parseUrl  *)
(* returns for the input quoted next to it.                                *)
(***************************************************************************)
n_foo == <<"f","o","o">>
n_gist == <<"g","i","s","t","-","a","b","c","1","2","3">>
n_commands == kw_commands
n_readme == <<"R","E","A","D","M","E",".","m","d">>
n_SKILL_md == <<"S","K","I","L","L",".","m","d">>
n_run_md == <<"r","u","n",".","m","d">>
n_a_md == <<"a",".","m","d">>
n_b_txt == <<"b",".","t","x","t">>
n_HEAD == <<"H","E","A","D">>
n_food == <<"F","o","o","d">>
n_foo_md == <<"f","o","o",".","m","d">>

homeClaude == <<"~","/",".","c","l","a","u","d","e">>
workspaceClaude == <<"w","s","/",".","c","l","a","u","d","e">>
tmpdir == <<"t","m","p">>
scratch == <<"c","l","a","u","d","e","-","s","k","i","l","l","-","X">>

Scopes == {"user", "project"}

\* "https://raw.githubusercontent.com/o/r/main/foo.md"
D_raw == [type |-> "raw", skillName |-> n_foo, skillType |-> "skill",
          subPath |-> <<>>, branch |-> "main"]
\* "https://github.com/o/r/blob/main/agents/foo.md"
D_file == [type |-> "file", skillName |-> n_foo, skillType |-> "agent",
           subPath |-> <<>>, branch |-> "main"]
\* "https://github.com/o/r/tree/main/foo"
D_folder == [type |-> "folder", skillName |-> n_foo, skillType |-> "skill",
             subPath |-> <<n_foo>>, branch |-> "main"]
\* "o/foo"
D_repo == [type |-> "repo", skillName |-> n_foo, skillType |-> "skill",
           subPath |-> <<>>, branch |-> ""]
\* "gist:abc123"
D_gist == [type |-> "gist", skillName |-> n_gist, skillType |-> "skill",
           subPath |-> <<>>, branch |-> ""]

\* "gist:/../../x/../gists/abc123"
D_gistPath == [type |-> "gist", skillName |-> <<"g","i","s","t","-","/",".",".","/",".",".","/","x">>,
               skillType |-> "skill", subPath |-> <<>>, branch |-> ""]

Descriptors == {D_raw, D_file, D_folder, D_repo, D_gist}

(***************************************************************************)
(* The remote world: HTTP responses, repository trees, gist metadata.      *)
(***************************************************************************)
\* A response is a transport/HTTP failure ("ERR"), or a body: an HTML page,
\* a text of five bytes, a text of two bytes.
Responses == {"ERR", "<html>", "text1", "ok"}

\* Trees a clone can produce (relative path -> "dir" or content).
Tree(entries) == [p \in {e[1] : e \in entries} |->
                    (CHOOSE e \in entries : e[1] = p)[2]]

GitMeta == {<< <<dot_git>>, "dir" >>, << <<dot_git, n_HEAD>>, "text1" >>}

\* foo/SKILL.md, README.md
TreeSkill == Tree(GitMeta \cup {<< <<n_foo>>, "dir" >>,
                                << <<n_foo, n_SKILL_md>>, "text1" >>,
                                << <<n_readme>>, "text2" >>})
\* foo/commands/run.md, foo/agent.md : two indicators
TreePlugin == Tree(GitMeta \cup {<< <<n_foo>>, "dir" >>,
                                 << <<n_foo, n_commands>>, "dir" >>,
                                 << <<n_foo, n_commands, n_run_md>>, "text1" >>,
                                 << <<n_foo, kw_agent_md>>, "text2" >>})
\* no foo, but a top-level directory whose name contains it
TreeFuzzy == Tree(GitMeta \cup {<< <<n_food>>, "dir" >>,
                                << <<n_food, n_SKILL_md>>, "text2" >>})
\* no foo, but a top-level file whose name contains it
TreeFile == Tree(GitMeta \cup {<< <<n_foo_md>>, "text1" >>})
\* nothing that resembles foo
TreeOther == Tree(GitMeta \cup {<< <<n_readme>>, "text1" >>})

Trees == {TreeSkill, TreePlugin, TreeFuzzy, TreeFile, TreeOther}

\* Gist metadata: the files of the gist; content "" means no inline content.
GistFile(name, content) == [filename |-> name, content |-> content]

GistDatas == { <<>>,
               <<GistFile(n_foo, "text1")>>,
               <<GistFile(n_b_txt, "")>>,
               <<GistFile(n_a_md, "text1"), GistFile(n_b_txt, "")>>,
               <<GistFile(n_SKILL_md, "text2"), GistFile(kw_agent_md, "text1")>> }

(***************************************************************************)
(* SmartInstaller: pure helpers.                                           *)
(***************************************************************************)
containerMap == [skill |-> kw_skills, agent |-> kw_agents,
                 command |-> kw_commands, plugin |-> kw_plugins]

destRoot(scope) == IF scope = "user" THEN <<homeClaude>> ELSE <<workspaceClaude>>

\* path.join(dir, name): name is read segment by segment, "" and "." are
\* skipped and ".." drops the last component reached so far
RECURSIVE pathJoin(_, _, _)
pathJoin(dir, seg, rest) ==
    LET joined == IF seg \in {<<>>, <<".">>} THEN dir
                  ELSE IF seg = <<".", ".">> THEN dirname(dir)
                  ELSE Append(dir, seg)
    IN  IF rest = <<>> THEN joined
        ELSE IF Head(rest) = "/" THEN pathJoin(joined, <<>>, Tail(rest))
        ELSE pathJoin(dir, Append(seg, Head(rest)), Tail(rest))

\* The path getDestinationPath returns when it does not throw.
getDestinationPath(name, type, scope) ==
    pathJoin(destRoot(scope) \o <<containerMap[type]>>, <<>>, name)

\* getDestinationPath throws 'No workspace open'
noWorkspace(scope, ws) == scope = "project" /\ ~ws

\* fetchContent: what the promise settles to for a response
fetchContent(resp) ==
    IF resp = "ERR" THEN [ok |-> FALSE, error |-> "HTTP error"]
    ELSE IF resp = "<html>"
         THEN [ok |-> FALSE, error |-> "Received HTML instead of raw content"]
         ELSE [ok |-> TRUE, data |-> resp]

hasContentType(f, dirPath, type) ==
    /\ existsSync(f, dirPath)
    /\ \E q \in {r \in DOMAIN f : Len(r) = Len(dirPath) + 1 /\ IsPrefix(dirPath, r)} :
          LET lower == toLowerCase(basename(q))
              isDir == f[q] = "dir"
          IN  CASE type = "skill" ->
                     \/ isDir /\ lower = kw_skills
                     \/ ~isDir /\ (lower = kw_skill_md \/ includes(lower, kw_skill))
                [] type = "agent" ->
                     \/ isDir /\ (lower = kw_agents \/ lower = kw_subagent
                                    \/ lower = kw_subagents)
                     \/ ~isDir /\ (lower = kw_agent_md \/ includes(lower, kw_agent)
                                     \/ includes(lower, kw_subagent))
                [] type = "command" ->
                     \/ isDir /\ lower = kw_commands
                     \/ ~isDir /\ (lower = kw_command_md \/ includes(lower, kw_command))

\* a classification that searches the whole path of a file for the keywords
detectTypeFromContentWholePath(f, contentPath, isDir) ==
    IF ~isDir
    THEN LET has(w) == \E n \in 1..Len(contentPath) :
                            includes(toLowerCase(contentPath[n]), w)
         IN  IF has(kw_agent) \/ has(kw_subagent) THEN "agent"
             ELSE IF has(kw_command) THEN "command"
             ELSE IF has(kw_plugin) THEN "plugin"
             ELSE "skill"
    ELSE LET hasSkills == hasContentType(f, contentPath, "skill")
             hasCommands == hasContentType(f, contentPath, "command")
             hasAgents == hasContentType(f, contentPath, "agent")
             typeCount == (IF hasSkills THEN 1 ELSE 0) + (IF hasCommands THEN 1 ELSE 0)
                            + (IF hasAgents THEN 1 ELSE 0)
         IN  IF typeCount >= 2 THEN "plugin"
             ELSE IF hasAgents THEN "agent"
             ELSE IF hasCommands THEN "command"
             ELSE "skill"

\* a classification in which agent content outranks the count of indicators
detectTypeFromContentAgentFirst(f, contentPath, isDir) ==
    IF ~isDir
    THEN LET filename == toLowerCase(basename(contentPath))
         IN  IF includes(filename, kw_agent) \/ includes(filename, kw_subagent)
             THEN "agent"
             ELSE IF includes(filename, kw_command) THEN "command"
             ELSE IF includes(filename, kw_plugin) THEN "plugin"
             ELSE "skill"
    ELSE LET hasSkills == hasContentType(f, contentPath, "skill")
             hasCommands == hasContentType(f, contentPath, "command")
             hasAgents == hasContentType(f, contentPath, "agent")
         IN  IF hasAgents THEN "agent"
             ELSE IF hasSkills /\ hasCommands THEN "plugin"
             ELSE IF hasCommands THEN "command"
             ELSE "skill"

detectTypeFromContent(f, contentPath, isDir) ==
    IF ~isDir
    THEN LET filename == toLowerCase(basename(contentPath))
         IN  IF includes(filename, kw_agent) \/ includes(filename, kw_subagent)
             THEN "agent"
             ELSE IF includes(filename, kw_command) THEN "command"
             ELSE IF includes(filename, kw_plugin) THEN "plugin"
             ELSE "skill"
    ELSE LET hasSkills == hasContentType(f, contentPath, "skill")
             hasCommands == hasContentType(f, contentPath, "command")
             hasAgents == hasContentType(f, contentPath, "agent")
             typeCount == (IF hasSkills THEN 1 ELSE 0) + (IF hasCommands THEN 1 ELSE 0)
                            + (IF hasAgents THEN 1 ELSE 0)
         IN  IF typeCount >= 2 THEN "plugin"
             ELSE IF hasAgents THEN "agent"
             ELSE IF hasCommands THEN "command"
             ELSE "skill"

\* a copy that does not skip the version-control directory
copyableAll(f, src) ==
    {SubSeq(r, Len(src) + 1, Len(r)) :
        r \in {q \in DOMAIN f : IsPrefix(src, q) /\ Len(q) > Len(src)}}

\* copyRecursive: the relative paths of src that are copied (no component of
\* the relative path is ".git")
copyable(f, src) ==
    {SubSeq(r, Len(src) + 1, Len(r)) :
        r \in {q \in DOMAIN f : IsPrefix(src, q) /\ Len(q) > Len(src)
                  /\ \A i \in (Len(src)+1)..Len(q) : q[i] # dot_git}}

\* The filesystem after the relative paths rels of src were copied to dest.
copyPaths(f, src, dest, rels) ==
    [q \in DOMAIN f \cup {dest \o r : r \in rels} |->
        IF \E r \in rels : dest \o r = q
        THEN f[src \o (CHOOSE r \in rels : dest \o r = q)]
        ELSE f[q]]

copyRecursive(f, src, dest) == copyPaths(f, src, dest, copyable(f, src))

\* What an interrupted copyRecursive can have copied: a proper subset in
\* which every copied entry has its parent copied.
partialCopies(f, src) ==
    {S \in SUBSET copyable(f, src) :
        /\ S # copyable(f, src)
        /\ \A r \in S : Len(r) > 1 => dirname(r) \in S}

(***************************************************************************)
(* SmartInstaller.install as a process: one call in flight, suspended at   *)
(* its network fetches and at its git clones.                              *)
(***************************************************************************)
tempDir == <<tmpdir, scratch>>

NoResult == [pending |-> TRUE]

\* prev remembers the call before this one when this call repeats it (same
\* descriptor, same scope) and it succeeded: the filesystem it started from
NoPrev == [repeat |-> FALSE]

\* return { success: true, destPath }
success(destPath) ==
    [escaped |-> FALSE, result |-> [success |-> TRUE, destPath |-> destPath]]

\* return { success: false, error }
failure(msg) ==
    [escaped |-> FALSE, result |-> [success |-> FALSE, error |-> msg]]

\* the catch block rethrowing instead of returning
installCatchRethrow(msg) ==
    [escaped |-> TRUE, result |-> [success |-> FALSE]]

\* catch (error) { return { success: false, error: error.message } }
installCatch(msg) ==
    [escaped |-> FALSE, result |-> [success |-> FALSE, error |-> msg]]

\* a finally block that leaves the scratch directory
cleanupTempSkipped(f) == f

\* installFolder's finally block
cleanupTemp(f) == rmSync(f, tempDir)

\* reclassification that reports the type but leaves the artifact in place
reclassifyInPlace(f, installedPath, parsed, scope) ==
    [fs |-> f,
     actualType |-> detectTypeFromContent(f, installedPath, isDirectory(f, installedPath)),
     out |-> success(installedPath)]

\* reclassification that forgets the provisional artifact on a conflict
reclassifyNoCleanup(f, installedPath, parsed, scope) ==
    LET isDir == isDirectory(f, installedPath)
        actualType == detectTypeFromContent(f, installedPath, isDir)
        correctDestPath == getDestinationPath(parsed.skillName, actualType, scope)
    IN  IF actualType # parsed.skillType
        THEN IF existsSync(f, correctDestPath)
             THEN [fs |-> f, actualType |-> actualType,
                   out |-> failure(<<"already exists in", scope, "as", actualType>>)]
             ELSE [fs |-> renameSync(mkdirSync(f, dirname(correctDestPath)),
                                     installedPath, correctDestPath),
                   actualType |-> actualType,
                   out |-> success(correctDestPath)]
        ELSE [fs |-> f, actualType |-> actualType, out |-> success(installedPath)]

\* install, after the retrieval strategy returned success with installedPath
reclassify(f, installedPath, parsed, scope) ==
    LET isDir == isDirectory(f, installedPath)
        actualType == detectTypeFromContent(f, installedPath, isDir)
        correctDestPath == getDestinationPath(parsed.skillName, actualType, scope)
    IN  IF actualType # parsed.skillType
        THEN IF existsSync(f, correctDestPath)
             THEN [fs |-> rmSync(f, installedPath), actualType |-> actualType,
                   out |-> failure(<<"already exists in", scope, "as", actualType>>)]
             ELSE [fs |-> renameSync(mkdirSync(f, dirname(correctDestPath)),
                                     installedPath, correctDestPath),
                   actualType |-> actualType,
                   out |-> success(correctDestPath)]
        ELSE [fs |-> f, actualType |-> actualType, out |-> success(installedPath)]

\* destPath + ext
withExt(destPath, ext) == dirname(destPath) \o <<basename(destPath) \o ext>>

\* the call i returns out, leaving the filesystem f
Done(i, f, out) ==
    /\ fs' = f
    /\ inst' = [i EXCEPT !.pc = "done", !.result = out.result,
                         !.escaped = out.escaped]

\* the retrieval strategy of the call i returned installedPath
Finish(i, f, installedPath) ==
    LET r == reclassify(f, installedPath, i.parsed, i.scope)
    IN  /\ fs' = r.fs
        /\ inst' = [i EXCEPT !.pc = "done", !.result = r.out.result,
                             !.escaped = r.out.escaped,
                             !.installedPath = installedPath,
                             !.actualType = r.actualType]

Install(parsed, scope) ==
    /\ inst.pc \in {"idle", "done"}
    /\ installs < MaxInstalls
    /\ installs' = installs + 1
    /\ UNCHANGED <<workspaceFolders, aggregatorVars, pureVars>>
    /\ LET tempDestPath == getDestinationPath(parsed.skillName, parsed.skillType, scope)
           started == [pc |-> "start", parsed |-> parsed, scope |-> scope,
                       destPath |-> tempDestPath, pre |-> fs, result |-> NoResult,
                       escaped |-> FALSE, files |-> <<>>, k |-> 0, clones |-> 0,
                       installedPath |-> <<>>, actualType |-> "",
                       fetched |-> <<>>, gotGist |-> FALSE, attempts |-> <<>>,
                       located |-> [how |-> "none"],
                       prev |-> IF /\ inst.pc = "done"
                                   /\ inst.result.success
                                   /\ inst.parsed = parsed
                                   /\ inst.scope = scope
                                THEN [repeat |-> TRUE, pre |-> inst.pre]
                                ELSE NoPrev]
           thrown == installCatch(<<"No workspace open">>)
           exists == failure(<<"already exists in", scope>>)
       IN  IF noWorkspace(scope, workspaceFolders)
           THEN /\ fs' = fs
                /\ inst' = [started EXCEPT !.pc = "done", !.result = thrown.result,
                                           !.escaped = thrown.escaped]
           ELSE IF existsSync(fs, tempDestPath)
           THEN /\ fs' = fs
                /\ inst' = [started EXCEPT !.pc = "done", !.result = exists.result]
           ELSE IF parsed.type \in {"file", "raw"}
           THEN /\ fs' = fs
                /\ inst' = [started EXCEPT !.pc = "installFile"]
           ELSE IF parsed.type \in {"folder", "repo"}
           THEN /\ fs' = mkdirSync(fs, tempDir)
                /\ inst' = [started EXCEPT !.pc = "cloneBranch"]
           ELSE /\ fs' = fs
                /\ inst' = [started EXCEPT !.pc = "installGist"]

\* installFile resumes when fetchContent settles
InstallFile(resp) ==
    /\ inst.pc = "installFile"
    /\ UNCHANGED <<workspaceFolders, installs, aggregatorVars, pureVars>>
    /\ LET content == fetchContent(resp)
           i == [inst EXCEPT !.fetched = Append(@, [file |-> 0, body |-> resp])]
           parentDir == dirname(inst.destPath)
           finalPath == IF extname(basename(inst.destPath)) = <<>>
                        THEN withExt(inst.destPath, ext_md)
                        ELSE inst.destPath
       IN  IF ~content.ok
           THEN Done(i, fs, installCatch(<<content.error>>))
           ELSE Finish(i, writeFileSync(mkdirSync(fs, parentDir), finalPath,
                                        content.data),
                       finalPath)

(***************************************************************************)
(* installFolder                                                           *)
(***************************************************************************)
\* git clone into the scratch directory
cloneInto(f, tree) ==
    [q \in DOMAIN f \cup {tempDir \o r : r \in DOMAIN tree} |->
        IF \E r \in DOMAIN tree : tempDir \o r = q
        THEN tree[CHOOSE r \in DOMAIN tree : tempDir \o r = q]
        ELSE f[q]]

RECURSIVE joinPath(_)
joinPath(p) ==
    IF Len(p) = 0 THEN <<>>
    ELSE IF Len(p) = 1 THEN p[1]
    ELSE p[1] \o <<"/">> \o joinPath(Tail(p))

\* the entries files.find can return for a missing subPath
fuzzyMatches(f, subPath) ==
    LET sp == toLowerCase(joinPath(subPath))
    IN  {m \in readdirSync(f, tempDir) :
            includes(toLowerCase(m), sp) \/ includes(sp, toLowerCase(m))}

\* the source paths the lookup can settle on; empty when it throws
sourcePaths(f, subPath) ==
    IF subPath = <<>> THEN {tempDir}
    ELSE IF existsSync(f, tempDir \o subPath) THEN {tempDir \o subPath}
    ELSE {tempDir \o <<m>> : m \in fuzzyMatches(f, subPath)}

\* a second attempt that names the branch again
cloneArgsPinned(attempt) == [pinned |-> TRUE]

\* the arguments of git clone: --branch <branch> in the first attempt only
cloneArgs(attempt) == [pinned |-> attempt = 1]

\* first attempt: git clone --depth 1 --branch <branch>
CloneBranch ==
    /\ inst.pc = "cloneBranch"
    /\ UNCHANGED <<workspaceFolders, installs, aggregatorVars, pureVars>>
    /\ \/ \E tree \in Trees :
            /\ fs' = cloneInto(fs, tree)
            /\ inst' = [inst EXCEPT !.pc = "copy", !.clones = @ + 1,
                           !.attempts = Append(@, [pinned |-> cloneArgs(1).pinned,
                                                   ok |-> TRUE])]
       \/ /\ fs' = fs
          /\ inst' = [inst EXCEPT !.pc = "cloneDefault", !.clones = @ + 1,
                         !.attempts = Append(@, [pinned |-> cloneArgs(1).pinned,
                                                 ok |-> FALSE])]

\* second attempt, in the catch block: git clone --depth 1
CloneDefault ==
    /\ inst.pc = "cloneDefault"
    /\ UNCHANGED <<workspaceFolders, installs, aggregatorVars, pureVars>>
    /\ \/ \E tree \in Trees :
            /\ fs' = cloneInto(fs, tree)
            /\ inst' = [inst EXCEPT !.pc = "copy", !.clones = @ + 1,
                           !.attempts = Append(@, [pinned |-> cloneArgs(2).pinned,
                                                   ok |-> TRUE])]
       \/ /\ fs' = cleanupTemp(fs)
          /\ inst' = [inst EXCEPT !.pc = "done", !.clones = @ + 1,
                         !.attempts = Append(@, [pinned |-> cloneArgs(2).pinned,
                                                 ok |-> FALSE]),
                         !.result = installCatch(<<"Command failed: git clone">>).result,
                         !.escaped = installCatch(<<"Command failed: git clone">>).escaped]

\* the rest of installFolder: lookup, copy, finally, and install's reclassify
CopyFolder ==
    /\ inst.pc = "copy"
    /\ UNCHANGED <<workspaceFolders, installs, aggregatorVars, pureVars>>
    /\ LET subPath == inst.parsed.subPath
           srcs == sourcePaths(fs, subPath)
           destPath == inst.destPath
           f1 == mkdirSync(fs, dirname(destPath))
           files == readdirSync(fs, tempDir)
           \* what the lookup saw and settled on (kept for the properties)
           top == {[name |-> m, dir |-> isDirectory(fs, tempDir \o <<m>>)] : m \in files}
           located(sourcePath) ==
               [how |-> IF subPath = <<>> THEN "root"
                        ELSE IF existsSync(fs, tempDir \o subPath) THEN "literal"
                        ELSE "fuzzy",
                rel |-> SubSeq(sourcePath, Len(tempDir) + 1, Len(sourcePath)),
                top |-> top,
                src |-> [r \in {SubSeq(q, Len(sourcePath) + 1, Len(q)) :
                                  q \in {p \in DOMAIN fs : IsPrefix(sourcePath, p)}} |->
                            fs[sourcePath \o r]]]
           at(sourcePath) == [inst EXCEPT !.located = located(sourcePath)]
       IN  IF srcs = {}
           THEN Done([inst EXCEPT !.located = [how |-> "missing", top |-> top]],
                     cleanupTemp(fs),
                     installCatch(<<"Path not found in repo. Available:", files>>))
           ELSE \E sourcePath \in srcs :
                  IF isDirectory(f1, sourcePath)
                  THEN \/ Finish(at(sourcePath),
                                 cleanupTemp(copyRecursive(mkdirSync(f1, destPath),
                                                           sourcePath, destPath)),
                                 destPath)
                       \/ \E S \in partialCopies(f1, sourcePath) :
                             Done(at(sourcePath),
                                  cleanupTemp(copyPaths(mkdirSync(f1, destPath),
                                                        sourcePath, destPath, S)),
                                  installCatch(<<"copy failed">>))
                  ELSE \/ Finish(at(sourcePath),
                                 cleanupTemp(writeFileSync(f1, destPath, f1[sourcePath])),
                                 destPath)
                       \/ Done(at(sourcePath), cleanupTemp(f1),
                               installCatch(<<"copy failed">>))

(***************************************************************************)
(* installGist                                                             *)
(***************************************************************************)
\* The multi-file loop from file k: writes the files that carry inline
\* content, up to the first one whose body must be fetched.
\* a loop that writes none of the files
gistLoopNoWrite(f, files, k, destPath) == [fs |-> f, k |-> Len(files) + 1]

RECURSIVE gistLoop(_, _, _, _)
gistLoop(f, files, k, destPath) ==
    IF k > Len(files) \/ files[k].content = ""
    THEN [fs |-> f, k |-> k]
    ELSE gistLoop(writeFileSync(f, destPath \o <<files[k].filename>>, files[k].content),
                  files, k + 1, destPath)

\* every gist file taken for markdown
gistExtMd(file) == ext_md

\* path.extname(file.filename) || '.md'
gistExt(file) == IF extname(file.filename) = <<>> THEN ext_md ELSE extname(file.filename)

\* installGist resumes when fetchJson settles
InstallGist ==
    /\ inst.pc = "installGist"
    /\ UNCHANGED <<workspaceFolders, installs, aggregatorVars, pureVars>>
    /\ \/ Done(inst, fs, installCatch(<<"HTTP error">>))
       \/ \E files \in GistDatas :
            LET destPath == inst.destPath
                f1 == mkdirSync(fs, dirname(destPath))
                i == [inst EXCEPT !.gotGist = TRUE, !.files = files]
            IN  IF Len(files) = 0
                THEN Done(i, fs, failure(<<"Gist has no files">>))
                ELSE IF Len(files) = 1
                THEN IF files[1].content # ""
                     THEN Finish(i, writeFileSync(f1, withExt(destPath, gistExt(files[1])),
                                                  files[1].content),
                                 withExt(destPath, gistExt(files[1])))
                     ELSE /\ fs' = f1
                          /\ inst' = [i EXCEPT !.pc = "gistFile", !.k = 1]
                ELSE LET l == gistLoop(mkdirSync(f1, destPath), files, 1, destPath)
                     IN  IF l.k > Len(files)
                         THEN Finish(i, l.fs, destPath)
                         ELSE /\ fs' = l.fs
                              /\ inst' = [i EXCEPT !.pc = "gistFile", !.k = l.k]

\* installGist resumes when the fetchContent of file k settles
FetchGistFile(resp) ==
    /\ inst.pc = "gistFile"
    /\ UNCHANGED <<workspaceFolders, installs, aggregatorVars, pureVars>>
    /\ LET content == fetchContent(resp)
           files == inst.files
           destPath == inst.destPath
           file == files[inst.k]
           i == [inst EXCEPT !.fetched = Append(@, [file |-> inst.k, body |-> resp])]
       IN  IF ~content.ok
           THEN Done(i, fs, installCatch(<<content.error>>))
           ELSE IF Len(files) = 1
           THEN Finish(i, writeFileSync(fs, withExt(destPath, gistExt(file)),
                                        content.data),
                       withExt(destPath, gistExt(file)))
           ELSE LET l == gistLoop(writeFileSync(fs, destPath \o <<file.filename>>,
                                                content.data),
                                  files, inst.k + 1, destPath)
                IN  IF l.k > Len(files)
                    THEN Finish(i, l.fs, destPath)
                    ELSE /\ fs' = l.fs
                         /\ inst' = [i EXCEPT !.k = l.k]

InstallerInit ==
    /\ fs = [p \in {<<tmpdir>>} |-> "dir"]
    /\ workspaceFolders \in BOOLEAN
    /\ installs = 0
    /\ inst = [pc |-> "idle", parsed |-> D_raw, scope |-> "user", destPath |-> <<>>,
               pre |-> [p \in {<<tmpdir>>} |-> "dir"], result |-> NoResult,
               escaped |-> FALSE, files |-> <<>>, k |-> 0, clones |-> 0,
               installedPath |-> <<>>, actualType |-> "",
               fetched |-> <<>>, gotGist |-> FALSE, attempts |-> <<>>,
               located |-> [how |-> "none"], prev |-> NoPrev]

InstallerNext ==
    \/ \E parsed \in Descriptors, scope \in Scopes : Install(parsed, scope)
    \/ \E resp \in Responses : InstallFile(resp)
    \/ CloneBranch
    \/ CloneDefault
    \/ CopyFolder
    \/ InstallGist
    \/ \E resp \in Responses : FetchGistFile(resp)

(***************************************************************************)
(* SourceAggregator.  A source object is named by a string; idOf gives its *)
(* id.  sources is the Map in insertion order, cache the Map of entries.   *)
(* The constructor registers the awesome-list source and the GitHub topic  *)
(* sources; the three topic sources differ only in their topics and the    *)
(* model registers one of them.                                            *)
(***************************************************************************)
SourceObjs == {"awesome", "github", "custom"}

\* "customB" is the AwesomeListSource loadCustomSources builds for another
\* URL in the first place of customSources: it has the id of "custom"
idOf == [awesome |-> "awesome-claude-skills", github |-> "github-claude-skill",
         custom |-> "custom-0", customB |-> "custom-0"]

SourceIds == {idOf[o] : o \in SourceObjs}

cacheDuration == 5 * 60 * 1000

\* the clock advances in steps of half the freshness window
TickMs == cacheDuration \div 2

\* A MarketplaceSkill: its url and the id of the provider that produced it.
Skill(url, o) == [url |-> url, source |-> idOf[o]]

\* What each provider's fetchSkills resolves to when it succeeds: the
\* catalogs overlap in u1, and the custom list is empty.
Outputs(o) ==
    CASE o = "awesome" -> { <<Skill("u1", o)>> }
      [] o = "github" -> { <<Skill("u2", o), Skill("u1", o)>> }
      [] o = "custom" -> { <<>> }
      [] o = "customB" -> { <<Skill("u3", o)>> }

\* error.message of a rejected fetchSkills; the github provider rejects with
\* a reason that carries no message
FailMessages(o) == IF o = "github" THEN {""} ELSE {"HTTP 500"}

Range(seq) == {seq[i] : i \in 1..Len(seq)}

RECURSIVE SelectSeq2(_, _)
\* Array.prototype.filter with a predicate given as a set of accepted values
SelectSeq2(seq, accepted) ==
    IF seq = <<>> THEN <<>>
    ELSE IF Head(seq) \in accepted
         THEN <<Head(seq)>> \o SelectSeq2(Tail(seq), accepted)
         ELSE SelectSeq2(Tail(seq), accepted)

\* this.sources.set(source.id, source)
mapSet(srcs, o) ==
    IF \E i \in 1..Len(srcs) : idOf[srcs[i]] = idOf[o]
    THEN [i \in 1..Len(srcs) |-> IF idOf[srcs[i]] = idOf[o] THEN o ELSE srcs[i]]
    ELSE Append(srcs, o)

\* this.sources.delete(id)
mapDelete(srcs, id) == SelectSeq2(srcs, {o \in DOMAIN idOf : idOf[o] # id})

\* an entry that is extended in place when the id is already cached
cacheSetMerged(c, id, entry) ==
    [i \in DOMAIN c \cup {id} |->
        IF i # id THEN c[i]
        ELSE IF id \in DOMAIN c
             THEN [entry EXCEPT !.skills = c[id].skills \o entry.skills]
             ELSE entry]

\* this.cache.set(id, entry) / this.cache.delete(id)
cacheSet(c, id, entry) == [i \in DOMAIN c \cup {id} |-> IF i = id THEN entry ELSE c[i]]
cacheDelete(c, id) == [i \in DOMAIN c \ {id} |-> c[i]]

IdleCall == [pc |-> "idle"]

\* A finished call keeps its result for the caller until the next step.
consumed(c) == [s \in DOMAIN c |-> IF c[s].pc = "done" THEN IdleCall ELSE c[s]]

registerSource(o) ==
    /\ ops < MaxOps
    /\ ops' = ops + 1
    /\ sources' = mapSet(sources, o)
    /\ call' = consumed(call)
    /\ UNCHANGED <<enabled, cache, now, calls, installerVars, pureVars>>

unregisterSource(id) ==
    /\ ops < MaxOps
    /\ ops' = ops + 1
    /\ sources' = mapDelete(sources, id)
    /\ cache' = cacheDelete(cache, id)
    /\ call' = consumed(call)
    /\ UNCHANGED <<enabled, now, calls, installerVars, pureVars>>

setEnabled(o, b) ==
    /\ o \in Range(sources)
    /\ ops < MaxOps
    /\ ops' = ops + 1
    /\ enabled' = [enabled EXCEPT ![o] = b]
    /\ call' = consumed(call)
    /\ UNCHANGED <<sources, cache, now, calls, installerVars, pureVars>>

\* time passes (Date.now())
Tick ==
    /\ now < MaxTicks * TickMs
    /\ now' = now + TickMs
    /\ call' = consumed(call)
    /\ UNCHANGED <<sources, enabled, cache, calls, ops, installerVars, pureVars>>

(***************************************************************************)
(* fetchAll.  A call is suspended in Promise.allSettled until every        *)
(* provider promise has settled; the rest of the method then runs at once. *)
(***************************************************************************)
Slots == {1}

\* the sourceIds options a caller passes
IdSelections == { {"awesome-claude-skills"},
                  {"github-claude-skill", "custom-0"} }

\* sourcesToFetch: the registered sources, in Map order, that are selected
sourcesToFetch(srcs, en, useIds, sourceIds) ==
    IF useIds
    THEN SelectSeq2(srcs, {o \in DOMAIN idOf : idOf[o] \in sourceIds})
    ELSE SelectSeq2(srcs, {o \in DOMAIN en : en[o]})

\* a cache check that still serves an entry of exactly the window's age
cacheHitInclusive(c, t, forceRefresh, o) ==
    /\ ~forceRefresh
    /\ idOf[o] \in DOMAIN c
    /\ t - c[idOf[o]].timestamp <= cacheDuration

\* the cache check of one provider: TRUE when the cached list is returned
cacheHit(c, t, forceRefresh, o) ==
    /\ ~forceRefresh
    /\ idOf[o] \in DOMAIN c
    /\ t - c[idOf[o]].timestamp < cacheDuration

\* results taken in the order in which the promises settled
resultsOrderSettled(c) == c.settled

\* the order in which Promise.allSettled hands the results to the loop
resultsOrder(c) == c.toFetch

RECURSIVE gather(_, _)
\* allSkills after the "Process results" loop over the results in order
gather(c, order) ==
    IF order = <<>> THEN <<>>
    ELSE (IF c.status[Head(order)] = "fulfilled" THEN c.skills[Head(order)] ELSE <<>>)
            \o gather(c, Tail(order))

RECURSIVE fulfilledInfos(_, _, _)
\* sourceInfos after the "Process results" loop
fulfilledInfos(c, order, en) ==
    IF order = <<>> THEN <<>>
    ELSE (IF c.status[Head(order)] = "fulfilled"
          THEN << [id |-> idOf[Head(order)], count |-> Len(c.skills[Head(order)]),
                   enabled |-> en[Head(order)]] >>
          ELSE <<>>)
            \o fulfilledInfos(c, Tail(order), en)

RECURSIVE collectErrors(_, _)
\* errors after the "Process results" loop
collectErrors(c, order) ==
    IF order = <<>> THEN <<>>
    ELSE (IF c.status[Head(order)] = "rejected"
          THEN << [sourceId |-> "unknown", sourceName |-> "Unknown",
                   error |-> IF c.reason[Head(order)] # ""
                             THEN c.reason[Head(order)] ELSE "Unknown error"] >>
          ELSE <<>>)
            \o collectErrors(c, Tail(order))

\* no entries added for the sources that were not fetched
notFetchedInfosNone(srcs, infos, en) == <<>>

RECURSIVE notFetchedInfos(_, _, _)
\* "Add info for sources not fetched": the registered sources without an entry
notFetchedInfos(srcs, infos, en) ==
    IF srcs = <<>> THEN <<>>
    ELSE (IF \E i \in 1..Len(infos) : infos[i].id = idOf[Head(srcs)]
          THEN <<>>
          ELSE << [id |-> idOf[Head(srcs)], count |-> 0, enabled |-> en[Head(srcs)]] >>)
            \o notFetchedInfos(Tail(srcs), infos, en)

RECURSIVE dedup(_, _)
\* "Deduplicate skills by URL": the first occurrence of every url is kept
dedup(skills, seen) ==
    IF skills = <<>> THEN <<>>
    ELSE IF Head(skills).url \in seen
         THEN dedup(Tail(skills), seen)
         ELSE <<Head(skills)>> \o dedup(Tail(skills), seen \cup {Head(skills).url})

\* the AggregatedResult of a call all of whose promises have settled
aggregate(c, srcs, en) ==
    LET order == resultsOrder(c)
        infos == fulfilledInfos(c, order, en)
    IN  [skills |-> dedup(gather(c, order), {}),
         sources |-> infos \o notFetchedInfos(srcs, infos, en),
         errors |-> collectErrors(c, order)]

\* the call after a promise settled: finished when none is pending; the
\* order in which the promises settled is not kept once allSettled returned
settle(c, srcs, en) ==
    IF \E o \in DOMAIN c.status : c.status[o] = "pending"
    THEN c
    ELSE [c EXCEPT !.pc = "done", !.result = aggregate(c, srcs, en),
                   !.settled = <<>>]

\* a call starts in the first slot that holds no pending call
freeSlot(s) ==
    /\ call[s].pc # "pending"
    /\ \A r \in DOMAIN call : r < s => call[r].pc = "pending"

fetchAll(s, forceRefresh, useIds, sourceIds) ==
    /\ freeSlot(s)
    /\ calls < MaxCalls
    /\ calls' = calls + 1
    /\ LET toFetch == sourcesToFetch(sources, enabled, useIds, sourceIds)
           hit(o) == cacheHit(cache, now, forceRefresh, o)
           started ==
             [pc |-> "pending", forceRefresh |-> forceRefresh, useIds |-> useIds,
              sourceIds |-> sourceIds, toFetch |-> toFetch,
              status |-> [o \in Range(toFetch) |->
                            IF hit(o) THEN "fulfilled" ELSE "pending"],
              skills |-> [o \in Range(toFetch) |->
                            IF hit(o) THEN cache[idOf[o]].skills ELSE <<>>],
              reason |-> [o \in Range(toFetch) |-> ""],
              invoked |-> {o \in Range(toFetch) : ~hit(o)},
              settled |-> SelectSeq2(toFetch, {o \in Range(toFetch) : hit(o)}),
              startNow |-> now, startCache |-> cache,
              result |-> NoResult]
       IN  call' = [call EXCEPT ![s] = settle(started, sources, enabled)]
    /\ UNCHANGED <<sources, enabled, cache, now, ops, installerVars, pureVars>>

\* the fetchSkills promise of provider o resolves with skills
FetchResolves(s, o, skills) ==
    /\ call[s].pc = "pending"
    /\ o \in DOMAIN call[s].status
    /\ call[s].status[o] = "pending"
    /\ cache' = cacheSet(cache, idOf[o], [skills |-> skills, timestamp |-> now])
    /\ call' = [call EXCEPT ![s] =
                  settle([@ EXCEPT !.status[o] = "fulfilled", !.skills[o] = skills,
                                   !.settled = Append(@, o)],
                         sources, enabled)]
    /\ UNCHANGED <<sources, enabled, now, calls, ops, installerVars, pureVars>>

\* the fetchSkills promise of provider o rejects with an error
FetchRejects(s, o, message) ==
    /\ call[s].pc = "pending"
    /\ o \in DOMAIN call[s].status
    /\ call[s].status[o] = "pending"
    /\ call' = [call EXCEPT ![s] =
                  settle([@ EXCEPT !.status[o] = "rejected", !.reason[o] = message,
                                   !.settled = Append(@, o)],
                         sources, enabled)]
    /\ UNCHANGED <<sources, enabled, cache, now, calls, ops, installerVars, pureVars>>

\* loadCustomSources(): created are the sources built from the customSources
\* setting, in its order; the sources whose id starts with 'custom-' are
\* deleted from the Map first, the cache is not touched
loadCustomSources(created) ==
    /\ ops < MaxLoads
    /\ ops' = ops + 1
    /\ LET RECURSIVE registerAll(_, _)
           registerAll(srcs, cs) ==
               IF cs = <<>> THEN srcs
               ELSE registerAll(mapSet(srcs, Head(cs)), Tail(cs))
           kept == SelectSeq2(sources, {o \in DOMAIN idOf : idOf[o] # "custom-0"})
       IN  sources' = registerAll(kept, created)
    /\ enabled' = [o \in DOMAIN enabled |->
                      IF o \in Range(created) THEN TRUE ELSE enabled[o]]
    /\ call' = consumed(call)
    /\ UNCHANGED <<cache, now, calls, installerVars, pureVars>>

\* clearCache(sourceId?)
clearCache(given, sourceId) ==
    /\ ops < MaxLoads
    /\ ops' = ops + 1
    /\ cache' = IF given THEN cacheDelete(cache, sourceId) ELSE <<>>
    /\ call' = consumed(call)
    /\ UNCHANGED <<sources, enabled, now, calls, installerVars, pureVars>>

AggregatorInit ==
    /\ sources = <<"awesome", "github">>
    /\ enabled = [o \in SourceObjs |-> TRUE]
    /\ cache = <<>>
    /\ now = 0
    /\ call = [s \in Slots |-> IdleCall]
    /\ calls = 0
    /\ ops = 0

AggregatorNext ==
    \/ \E o \in SourceObjs : registerSource(o)
    \/ \E id \in SourceIds : unregisterSource(id)
    \/ \E o \in SourceObjs, b \in BOOLEAN : setEnabled(o, b)
    \/ Tick
    \/ \E s \in DOMAIN call, forceRefresh \in BOOLEAN :
            \/ fetchAll(s, forceRefresh, FALSE, {})
            \/ \E sourceIds \in IdSelections : fetchAll(s, forceRefresh, TRUE, sourceIds)
    \/ \E s \in DOMAIN call, o \in SourceObjs : \E skills \in Outputs(o) :
            FetchResolves(s, o, skills)
    \/ \E s \in DOMAIN call, o \in SourceObjs : \E message \in FailMessages(o) :
            FetchRejects(s, o, message)

(***************************************************************************)
(* SmartInstaller.parseUrl.  The input is a string (a sequence of          *)
(* characters); each regular expression of the method is computed on the   *)
(* parts of the input between "/" characters.                              *)
(***************************************************************************)
\* [a-zA-Z0-9_-]
wordChar(c) ==
    \/ \E i \in 1..26 : upperCase[i] = c \/ lowerCase[i] = c
    \/ c \in {"0", "1", "2", "3", "4", "5", "6", "7", "8", "9", "_", "-"}

\* [a-f0-9] under the i flag
hexChar(c) ==
    toLowerChar(c) \in {"0", "1", "2", "3", "4", "5", "6", "7", "8", "9",
                        "a", "b", "c", "d", "e", "f"}

startsWith(s, t) == Len(t) <= Len(s) /\ SubSeq(s, 1, Len(t)) = t

endsWith(s, t) == Len(t) <= Len(s) /\ SubSeq(s, Len(s) - Len(t) + 1, Len(s)) = t

\* s.substring(a, b), indices from 0
substring(s, a, b) ==
    SubSeq(s, a + 1, IF b < Len(s) THEN b ELSE Len(s))

\* String.prototype.trim (of spaces)
trim(s) ==
    LET kept == {i \in 1..Len(s) : s[i] # " "}
    IN  IF kept = {} THEN <<>>
        ELSE SubSeq(s, CHOOSE i \in kept : \A j \in kept : i <= j,
                       CHOOSE i \in kept : \A j \in kept : i >= j)

RECURSIVE split(_, _)
\* the parts of s between the occurrences of the character sep
split(s, sep) ==
    IF \E i \in 1..Len(s) : s[i] = sep
    THEN LET i == CHOOSE k \in 1..Len(s) : s[k] = sep /\ \A j \in 1..(k-1) : s[j] # sep
         IN  <<SubSeq(s, 1, i - 1)>> \o split(SubSeq(s, i + 1, Len(s)), sep)
    ELSE <<s>>

\* the parts from the n-th on, joined again: what (.+) captures
rest(parts, n) == joinPath(SubSeq(parts, n, Len(parts)))

RECURSIVE stripSlashes(_)
\* a path without its trailing "/" characters
stripSlashes(p) ==
    IF Len(p) > 1 /\ p[Len(p)] = "/" THEN stripSlashes(SubSeq(p, 1, Len(p) - 1)) ELSE p

\* path.basename(p)
path_basename(p) ==
    LET segs == split(stripSlashes(p), "/") IN segs[Len(segs)]

\* path.basename(p, ext)
path_basename_ext(p, ext) ==
    LET b == path_basename(p)
    IN  IF ext # <<>> /\ b # ext /\ endsWith(b, ext)
        THEN SubSeq(b, 1, Len(b) - Len(ext))
        ELSE b

\* path.dirname(p) of a relative path
path_dirname(p) ==
    LET segs == split(stripSlashes(p), "/")
    IN  IF Len(segs) = 1 THEN <<".">>
        ELSE stripSlashes(joinPath(SubSeq(segs, 1, Len(segs) - 1)))

\* the components path.join(tempDir, p) appends to tempDir
pathComponents(p) ==
    SelectSeq(split(p, "/"), LAMBDA c : c # <<>> /\ c # <<".">>)

RECURSIVE collapseDashes(_)
\* .replace(/-+/g, '-')
collapseDashes(s) ==
    IF Len(s) <= 1 THEN s
    ELSE IF s[1] = "-" /\ s[2] = "-" THEN collapseDashes(Tail(s))
    ELSE <<s[1]>> \o collapseDashes(Tail(s))

sanitizeName(name) ==
    LET replaced == [i \in 1..Len(name) |-> IF wordChar(name[i]) THEN name[i] ELSE "-"]
        collapsed == collapseDashes(replaced)
        \* .replace(/^-|-$/g, '')
        a == IF collapsed # <<>> /\ collapsed[1] = "-" THEN Tail(collapsed) ELSE collapsed
        b == IF a # <<>> /\ a[Len(a)] = "-" THEN SubSeq(a, 1, Len(a) - 1) ELSE a
    IN  toLowerCase(b)

detectSkillType(filePath) ==
    LET lower == toLowerCase(filePath)
    IN  IF includes(lower, kw_plugin) THEN "plugin"
        ELSE IF includes(lower, kw_agent) \/ includes(lower, kw_subagent) THEN "agent"
        ELSE IF includes(lower, kw_command) THEN "command"
        ELSE "skill"

\* the string literals of parseUrl
lit == [gist_colon |-> <<"g","i","s","t",":">>, gist_dash |-> <<"g","i","s","t","-">>,
        http |-> <<"h","t","t","p",":">>, https |-> <<"h","t","t","p","s",":">>,
        gist_host |-> <<"g","i","s","t",".","g","i","t","h","u","b",".","c","o","m">>,
        raw_host |-> <<"r","a","w",".","g","i","t","h","u","b","u","s","e","r","c","o","n","t","e","n","t",".","c","o","m">>,
        github_host |-> <<"g","i","t","h","u","b",".","c","o","m">>,
        github_url |-> <<"h","t","t","p","s",":","/","/","g","i","t","h","u","b",".","c","o","m","/">>,
        raw_url |-> <<"h","t","t","p","s",":","/","/","r","a","w",".","g","i","t","h","u","b","u","s","e","r","c","o","n","t","e","n","t",".","c","o","m","/">>,
        dot_git |-> <<".","g","i","t">>, blob |-> <<"b","l","o","b">>, tree |-> <<"t","r","e","e">>,
        main |-> <<"m","a","i","n">>, SKILL_md |-> <<"S","K","I","L","L",".","m","d">>, agent_md |-> <<"a","g","e","n","t",".","m","d">>]

\* ^https?:\/\/<host>\/ under the i flag
httpHost(parts, host) ==
    /\ Len(parts) >= 4
    /\ toLowerCase(parts[1]) \in {lit.http, lit.https}
    /\ parts[2] = <<>>
    /\ toLowerCase(parts[3]) = host

RECURSIVE hexPrefix(_)
\* what ([a-f0-9]+) takes from the start of s
hexPrefix(s) ==
    IF s # <<>> /\ hexChar(s[1]) THEN <<s[1]>> \o hexPrefix(Tail(s)) ELSE <<>>

\* `https://github.com/${owner}/${repo}.git`
repoUrlOf(owner, repo) == lit.github_url \o owner \o <<"/">> \o repo \o lit.dot_git

\* parseUrl returns null
Null == [type |-> "null"]

\* the blob of a SKILL.md or agent.md taken for the file itself
blobFolderPathFile(filePath) == filePath

\* const folderPath = path.dirname(filePath)
blobFolderPath(filePath) == path_dirname(filePath)

\* a shorthand that names the branch master
shorthandBranchMaster == <<"m","a","s","t","e","r">>

\* branch: 'main'
shorthandBranch == lit.main

parseUrl(given) ==
    LET input == trim(given)
        parts == split(input, "/")
        gistMatch ==
            /\ httpHost(parts, lit.gist_host)
            /\ Len(parts) >= 5
            /\ parts[4] # <<>>
            /\ hexPrefix(parts[5]) # <<>>
        rawMatch ==
            /\ httpHost(parts, lit.raw_host)
            /\ Len(parts) >= 7
            /\ parts[4] # <<>> /\ parts[5] # <<>> /\ parts[6] # <<>>
            /\ rest(parts, 7) # <<>>
        blobMatch ==
            /\ httpHost(parts, lit.github_host)
            /\ Len(parts) >= 8
            /\ parts[4] # <<>> /\ parts[5] # <<>>
            /\ toLowerCase(parts[6]) = lit.blob
            /\ parts[7] # <<>>
            /\ rest(parts, 8) # <<>>
        treeMatch ==
            /\ httpHost(parts, lit.github_host)
            /\ Len(parts) >= 7
            /\ parts[4] # <<>> /\ parts[5] # <<>>
            /\ toLowerCase(parts[6]) = lit.tree
            /\ parts[7] # <<>>
            /\ (Len(parts) > 7 => rest(parts, 8) # <<>>)
        repoMatch ==
            /\ httpHost(parts, lit.github_host)
            /\ Len(parts) \in {5, 6}
            /\ parts[4] # <<>> /\ parts[5] # <<>>
            /\ (Len(parts) = 6 => parts[6] = <<>>)
        shorthandMatch ==
            /\ Len(parts) >= 2
            /\ parts[1] # <<>> /\ \A i \in 1..Len(parts[1]) : wordChar(parts[1][i])
            /\ parts[2] # <<>>
            /\ \A i \in 1..Len(parts[2]) : wordChar(parts[2][i]) \/ parts[2][i] = "."
            /\ (Len(parts) > 2 => rest(parts, 3) # <<>>)
    IN  IF startsWith(input, lit.gist_colon)
        THEN \* "Shorthand: gist:id"
             LET gistId == substring(input, 5, Len(input))
             IN  [type |-> "gist", gistId |-> gistId,
                  skillName |-> lit.gist_dash \o substring(gistId, 0, 8),
                  skillType |-> "skill"]
        ELSE IF gistMatch
        THEN \* "Gist URL"
             LET gistId == hexPrefix(parts[5])
             IN  [type |-> "gist", gistId |-> gistId, owner |-> parts[4],
                  skillName |-> lit.gist_dash \o substring(gistId, 0, 8),
                  skillType |-> "skill"]
        ELSE IF rawMatch
        THEN \* "Raw GitHub URL"
             LET filePath == rest(parts, 7)
                 fileName == path_basename_ext(filePath, extname(path_basename(filePath)))
             IN  [type |-> "raw", rawUrl |-> input, owner |-> parts[4],
                  repo |-> parts[5], branch |-> parts[6], subPath |-> filePath,
                  skillName |-> sanitizeName(fileName),
                  skillType |-> detectSkillType(filePath)]
        ELSE IF blobMatch
        THEN \* "GitHub blob URL (single file)"
             LET filePath == rest(parts, 8)
                 fileName == path_basename_ext(filePath, extname(path_basename(filePath)))
             IN  IF endsWith(filePath, lit.SKILL_md) \/ endsWith(filePath, lit.agent_md)
                 THEN LET folderPath == blobFolderPath(filePath)
                          folderName == path_basename(folderPath)
                      IN  [type |-> "folder",
                           repoUrl |-> repoUrlOf(parts[4], parts[5]),
                           branch |-> parts[7], subPath |-> folderPath,
                           owner |-> parts[4], repo |-> parts[5],
                           skillName |-> sanitizeName(folderName),
                           skillType |-> detectSkillType(filePath)]
                 ELSE [type |-> "file",
                       repoUrl |-> repoUrlOf(parts[4], parts[5]),
                       branch |-> parts[7], subPath |-> filePath,
                       owner |-> parts[4], repo |-> parts[5],
                       rawUrl |-> lit.raw_url \o parts[4] \o <<"/">> \o parts[5]
                                    \o <<"/">> \o parts[7] \o <<"/">> \o filePath,
                       skillName |-> sanitizeName(fileName),
                       skillType |-> detectSkillType(filePath)]
        ELSE IF treeMatch
        THEN \* "GitHub tree URL (folder)"
             LET subPath == IF Len(parts) > 7 THEN rest(parts, 8) ELSE <<>>
                 folderName == IF subPath # <<>> THEN path_basename(subPath)
                               ELSE parts[5]
             IN  [type |-> "folder", repoUrl |-> repoUrlOf(parts[4], parts[5]),
                  branch |-> parts[7], subPath |-> subPath,
                  owner |-> parts[4], repo |-> parts[5],
                  skillName |-> sanitizeName(folderName),
                  skillType |-> detectSkillType(subPath)]
        ELSE IF repoMatch
        THEN \* "GitHub repo URL (no tree/blob)"
             [type |-> "repo", repoUrl |-> repoUrlOf(parts[4], parts[5]),
              owner |-> parts[4], repo |-> parts[5],
              skillName |-> sanitizeName(parts[5]), skillType |-> "skill"]
        ELSE IF shorthandMatch
        THEN \* "Shorthand: user/repo or user/repo/path"
             LET subPath == IF Len(parts) > 2 THEN rest(parts, 3) ELSE <<>>
                 skillName == IF subPath # <<>> THEN path_basename(subPath)
                              ELSE parts[2]
             IN  IF subPath # <<>>
                 THEN [type |-> "folder",
                       repoUrl |-> repoUrlOf(parts[1], parts[2]),
                       branch |-> shorthandBranch, subPath |-> subPath,
                       owner |-> parts[1], repo |-> parts[2],
                       skillName |-> sanitizeName(skillName),
                       skillType |-> detectSkillType(subPath)]
                 ELSE [type |-> "repo",
                       repoUrl |-> repoUrlOf(parts[1], parts[2]),
                       owner |-> parts[1], repo |-> parts[2],
                       skillName |-> sanitizeName(parts[2]), skillType |-> "skill"]
        ELSE Null

(***************************************************************************)
(* Calls of the pure methods.  A request carries the pieces its input was  *)
(* written from, and the input itself.                                     *)
(***************************************************************************)
\* the pieces the inputs of parseUrl are written from
pieces == [schemes |-> {<<"h","t","t","p","s",":","/","/">>, <<"h","t","t","p",":","/","/">>, <<"H","T","T","P","S",":","/","/">>},
           owners |-> {<<"o">>, <<"m","y","-","o","r","g">>},
           repos |-> {<<"r">>, <<"m","y",".","r","e","p","o">>},
           branches |-> {<<"m","a","i","n">>, <<"d","e","v">>},
           dirs |-> {<<>>, <<<<"a">>>>, <<<<"s","k","i","l","l","s">>, <<"b">>>>, <<<<"a","g","e","n","t","s">>>>},
           files |-> {<<"S","K","I","L","L",".","m","d">>, <<"a","g","e","n","t",".","m","d">>, <<"s","u","b","a","g","e","n","t",".","m","d">>, <<"f","o","o",".","m","d">>,
                      <<"s","k","i","l","l",".","m","d">>, <<"p","l","u","g","i","n","-","a","g","e","n","t",".","m","d">>, <<"m","y","-","c","o","m","m","a","n","d",".","m","d">>},
           subPaths |-> {<<>>, <<<<"s","u","b">>, <<"p","a","t","h">>>>, <<<<"F","o","o"," ","B","a","r">>>>, <<<<"+">>>>,
                         <<<<"p","l","u","g","i","n","s">>, <<"x">>>>, <<<<"M","y","-","A","g","e","n","t">>>>},
           gistIds |-> {<<"a","b","c","1","2","3">>, <<"0","1","2","3","4","5","6","7","8","9","a","b","c","d","e","f">>, <<"A","B","C","D","E","F","1","2">>},
           others |-> {<<>>, <<"h","e","l","l","o">>, <<" ","o","/","r"," ">>, <<"o","/","r","/">>,
                       <<"h","t","t","p","s",":","/","/","e","x","a","m","p","l","e",".","c","o","m","/","x">>}]

request(form, scheme, owner, repo, branch, path, input) ==
    [fn |-> "parseUrl", form |-> form, scheme |-> scheme, owner |-> owner,
     repo |-> repo, branch |-> branch, path |-> path, input |-> input]

ParseRequests ==
    {request("blob", s, <<"o">>, r, b, d \o <<f>>,
             s \o joinPath(<<lit.github_host, <<"o">>, r, lit.blob, b>> \o d \o <<f>>)) :
        s \in pieces.schemes, r \in pieces.repos, b \in pieces.branches,
        d \in pieces.dirs, f \in pieces.files}
    \cup
    {request("raw", s, <<"o">>, <<"r">>, b, d \o <<f>>,
             s \o joinPath(<<lit.raw_host, <<"o">>, <<"r">>, b>> \o d \o <<f>>)) :
        s \in pieces.schemes, b \in pieces.branches,
        d \in pieces.dirs, f \in pieces.files}
    \cup
    {request("tree", s, <<"o">>, r, b, p,
             s \o joinPath(<<lit.github_host, <<"o">>, r, lit.tree, b>> \o p)) :
        s \in pieces.schemes, r \in pieces.repos, b \in pieces.branches,
        p \in pieces.subPaths}
    \cup
    {request("repo", s, <<"o">>, r, <<>>, <<>>,
             s \o joinPath(<<lit.github_host, <<"o">>, r>>) \o t) :
        s \in pieces.schemes, r \in pieces.repos \cup {<<".">>}, t \in {<<>>, <<"/">>}}
    \cup
    {request("shorthand", <<>>, o, r, <<>>, p, joinPath(<<o, r>> \o p)) :
        o \in pieces.owners, r \in pieces.repos \cup {<<".">>}, p \in pieces.subPaths}
    \cup
    {request("gist", s, <<"a","l","i","c","e">>, <<>>, <<>>, <<g>>,
             s \o joinPath(<<lit.gist_host, <<"a","l","i","c","e">>, g>>)) :
        s \in pieces.schemes, g \in pieces.gistIds}
    \cup
    {request("gist", <<>>, <<>>, <<>>, <<>>, <<g>>, lit.gist_colon \o g) :
        g \in pieces.gistIds \cup {<<>>}}
    \cup
    {request("other", <<>>, <<>>, <<>>, <<>>, <<>>, i) : i \in pieces.others}

\* no call made yet
NoRet == [done |-> FALSE]

\* a caller invokes parseUrl(input)
ParseUrl ==
    /\ req.fn = "parseUrl"
    /\ ~ret.done
    /\ ret' = [done |-> TRUE, value |-> parseUrl(req.input)]
    /\ UNCHANGED <<req, installerVars, aggregatorVars>>

\* SmartInstaller.isValidInput
isValidInput(given) ==
    LET input == trim(given)
        parts == split(input, "/")
    IN  \/ startsWith(input, lit.gist_colon)
        \/ startsWith(input, <<"h","t","t","p",":","/","/">>) \/ startsWith(input, <<"h","t","t","p","s",":","/","/">>)
        \/ \* /^[a-zA-Z0-9_-]+\/[a-zA-Z0-9_.-]+/
           /\ Len(parts) >= 2
           /\ parts[1] # <<>> /\ \A i \in 1..Len(parts[1]) : wordChar(parts[1][i])
           /\ parts[2] # <<>> /\ (wordChar(parts[2][1]) \/ parts[2][1] = ".")

\* a caller invokes isValidInput(input)
IsValidInput ==
    /\ req.fn = "isValidInput"
    /\ ~ret.done
    /\ ret' = [done |-> TRUE, value |-> isValidInput(req.input)]
    /\ UNCHANGED <<req, installerVars, aggregatorVars>>

\* no pure method is called
PureIdle == req = [fn |-> "none"] /\ ret = NoRet

\* the entries a classified directory is made of
DirEntries == {[name |-> kw_commands, dir |-> TRUE],
               [name |-> kw_agents, dir |-> TRUE],
               [name |-> kw_skills, dir |-> TRUE],
               [name |-> <<"S","u","b","a","g","e","n","t","s">>, dir |-> TRUE],
               [name |-> <<"S","K","I","L","L",".","m","d">>, dir |-> FALSE],
               [name |-> <<"R","E","A","D","M","E",".","m","d">>, dir |-> FALSE],
               [name |-> <<"m","y","-","c","o","m","m","a","n","d",".","m","d">>, dir |-> FALSE]}

\* the names of single files that are classified
FileNames == {<<"f","o","o",".","m","d">>, <<"S","K","I","L","L",".","m","d">>, <<"m","y","-","a","g","e","n","t",".","m","d">>, <<"S","u","b","a","g","e","n","t",".","m","d">>,
              <<"a","g","e","n","t","-","c","o","m","m","a","n","d",".","m","d">>, <<"C","o","m","m","a","n","d","-","P","l","u","g","i","n",".","m","d">>, <<"p","l","u","g","i","n",".","m","d">>}

\* a directory made of some entries, or a single file that was written under
\* the container of its proposed type
ClassifyRequests ==
    {[fn |-> "detectTypeFromContent", isDirectory |-> TRUE, entries |-> E] :
        E \in SUBSET DirEntries}
    \cup
    {[fn |-> "detectTypeFromContent", isDirectory |-> FALSE, file |-> n,
      proposed |-> t] : n \in FileNames, t \in Types}

\* a caller invokes detectTypeFromContent(contentPath, isDirectory) on a
\* directory that holds the entries of the request, or on the file of the
\* request
DetectTypeFromContent ==
    /\ req.fn = "detectTypeFromContent"
    /\ ~ret.done
    /\ IF ~req.isDirectory
       THEN LET contentPath == getDestinationPath(req.file, req.proposed, "user")
                f == [p \in {contentPath} |-> "text1"]
            IN  ret' = [done |-> TRUE,
                        value |-> detectTypeFromContent(f, contentPath, FALSE)]
       ELSE
       LET contentPath == <<n_foo>>
           f == [p \in {contentPath} \cup {contentPath \o <<e.name>> : e \in req.entries} |->
                    IF p = contentPath
                       \/ (CHOOSE e \in req.entries : contentPath \o <<e.name>> = p).dir
                    THEN "dir" ELSE "text1"]
       IN  ret' = [done |-> TRUE, value |-> detectTypeFromContent(f, contentPath, TRUE)]
    /\ UNCHANGED <<req, installerVars, aggregatorVars>>

\* the longest chain of redirecting responses a server answers with
MaxChain == 7

\* a bound that already stops the request that follows the fifth redirect
tooManyRedirectsAt5(redirectCount) == redirectCount >= 5

\* "if (redirectCount > 5)"
tooManyRedirects(redirectCount) == redirectCount > 5

\* one round of the inner function get of fetchContent (and of fetchUrl): the
\* check of the count, the request, and the handling of its response.  The
\* server answers the first req.chain requests with a redirect and the next
\* one with req.final.
get ==
    /\ req.fn = "fetchContent"
    /\ ~ret.done
    /\ LET redirectCount == IF ret = NoRet THEN 0 ELSE ret.redirectCount
           requests == IF ret = NoRet THEN 0 ELSE ret.requests
       IN  IF tooManyRedirects(redirectCount)
           THEN ret' = [done |-> TRUE, requests |-> requests,
                        value |-> [ok |-> FALSE, error |-> "Too many redirects"]]
           ELSE IF redirectCount < req.chain
           THEN ret' = [done |-> FALSE, requests |-> requests + 1,
                        redirectCount |-> redirectCount + 1]
           ELSE ret' = [done |-> TRUE, requests |-> requests + 1,
                        value |-> fetchContent(req.final)]
    /\ UNCHANGED <<req, installerVars, aggregatorVars>>

PureNext ==
    \/ ParseUrl
    \/ DetectTypeFromContent
    \/ get
    \/ IsValidInput

(***************************************************************************)
(* Specifications.                                                         *)
(***************************************************************************)
Init == InstallerInit /\ AggregatorInit /\ PureIdle

Next == InstallerNext \/ AggregatorNext

Spec == Init /\ [][Next]_vars

\* the installer alone
SpecInstaller == Init /\ [][InstallerNext]_vars

\* the aggregator alone
AggregatorOnlyInit == Init /\ workspaceFolders = TRUE

SpecAggregator == AggregatorOnlyInit /\ [][AggregatorNext]_vars

\* the pure methods alone, each called once on an input
PureOnlyInit ==
    /\ InstallerInit
    /\ workspaceFolders = TRUE
    /\ AggregatorInit
    /\ req \in ParseRequests \cup ClassifyRequests
                \cup {[r EXCEPT !.fn = "isValidInput"] : r \in ParseRequests}
                \cup {[fn |-> "fetchContent", chain |-> n, final |-> r] :
                          n \in 0..MaxChain, r \in Responses}
    /\ ret = NoRet

SpecPure == PureOnlyInit /\ [][PureNext]_vars

\* the fetch of provider o fails (network or parse error): fetchSkills
\* catches the error and resolves with an empty list
FetchFails(s, o) == FetchResolves(s, o, <<>>)

\* fetchAll calls that overlap, on the sources the constructor registered
FetchInit ==
    /\ InstallerInit
    /\ workspaceFolders = TRUE
    /\ PureIdle
    /\ sources = <<"awesome", "github">>
    /\ enabled = [o \in SourceObjs |-> TRUE]
    /\ cache = <<>>
    /\ now = 0
    /\ call = [s \in 1..2 |-> IdleCall]
    /\ calls = 0
    /\ ops = 0

FetchNext ==
    \/ Tick
    \/ \E s \in DOMAIN call, forceRefresh \in BOOLEAN :
            fetchAll(s, forceRefresh, FALSE, {})
    \/ \E s \in DOMAIN call, o \in SourceObjs : \E skills \in Outputs(o) :
            FetchResolves(s, o, skills)
    \/ \E s \in DOMAIN call, o \in SourceObjs : FetchFails(s, o)

SpecFetch == FetchInit /\ [][FetchNext]_vars

\* installs of single files and gists, the gist also named by an id that
\* holds path segments
FlatNext ==
    \/ \E parsed \in {D_raw, D_file, D_gist, D_gistPath}, scope \in Scopes :
            Install(parsed, scope)
    \/ \E resp \in Responses : InstallFile(resp)
    \/ InstallGist
    \/ \E resp \in Responses : FetchGistFile(resp)

SpecFlat == Init /\ [][FlatNext]_vars

\* the registry and the cache of the aggregator, with the custom sources
\* reloaded from the setting: no list, the list of "custom" or of "customB"
RegistryInit ==
    /\ InstallerInit
    /\ workspaceFolders = TRUE
    /\ PureIdle
    /\ sources = <<"awesome", "github">>
    /\ enabled = [o \in DOMAIN idOf |-> TRUE]
    /\ cache = <<>>
    /\ now = 0
    /\ call = [s \in Slots |-> IdleCall]
    /\ calls = 0
    /\ ops = 0

RegistryNext ==
    \/ \E o \in DOMAIN idOf : registerSource(o)
    \/ \E id \in SourceIds : unregisterSource(id)
    \/ \E created \in {<<>>, <<"custom">>, <<"customB">>} : loadCustomSources(created)
    \/ \E given \in BOOLEAN, id \in SourceIds : clearCache(given, id)
    \/ \E s \in DOMAIN call, forceRefresh \in BOOLEAN :
            fetchAll(s, forceRefresh, FALSE, {})
    \/ \E s \in DOMAIN call, o \in DOMAIN idOf : \E skills \in Outputs(o) :
            FetchResolves(s, o, skills)

SpecRegistry == RegistryInit /\ [][RegistryNext]_vars

(***************************************************************************)
(* Properties of install.                                                  *)
(***************************************************************************)
Returned == inst.pc = "done"

\* the call before this one was the same install, and it succeeded
Repeated == Returned /\ inst.prev.repeat

\* the paths the previous call created or changed
WrittenByPrev ==
    {p \in DOMAIN inst.pre :
        p \notin DOMAIN inst.prev.pre \/ inst.prev.pre[p] # inst.pre[p]}

\* C1: a second install(d, s) right after a successful install(d, s) fails
\* with "already exists" and leaves every file of the first call as it was.
C1_SecondInstallAlreadyExists ==
    Repeated =>
        /\ ~inst.result.success
        /\ inst.result.error[1] = "already exists in"
        /\ \A p \in WrittenByPrev : p \in DOMAIN fs /\ fs[p] = inst.pre[p]

\* C2: when install returns a failure, the files and directories are exactly
\* those that existed before the call.
C2_FailedInstallLeavesFilesystem ==
    (Returned /\ ~inst.result.success) => fs = inst.pre

\* the type derived from the content at the returned path
FinalType ==
    detectTypeFromContent(fs, inst.result.destPath,
                          isDirectory(fs, inst.result.destPath))

RelocationConflict ==
    /\ Returned
    /\ inst.actualType # ""
    /\ inst.actualType # inst.parsed.skillType
    /\ existsSync(inst.pre, getDestinationPath(inst.parsed.skillName,
                                               inst.actualType, inst.scope))

\* C4: on a relocation conflict install fails with "already exists ... as
\* <new type>", nothing of the provisional artifact remains, and everything at
\* the correct destination is as it was.
C4_RelocationConflictCleansUp ==
    RelocationConflict =>
        LET correctDestPath == getDestinationPath(inst.parsed.skillName,
                                                  inst.actualType, inst.scope)
        IN  /\ inst.result = [success |-> FALSE,
                              error |-> <<"already exists in", inst.scope, "as",
                                          inst.actualType>>]
            /\ \A q \in DOMAIN fs : ~IsPrefix(inst.installedPath, q)
            /\ {q \in DOMAIN fs : IsPrefix(correctDestPath, q)}
                  = {q \in DOMAIN inst.pre : IsPrefix(correctDestPath, q)}
            /\ \A q \in DOMAIN inst.pre :
                  IsPrefix(correctDestPath, q) => fs[q] = inst.pre[q]

\* the provisional artifact had been written when the conflict was found
C4_Witness == RelocationConflict /\ inst.installedPath # <<>>

\* C5: install always returns: either success with a path and no error, or
\* failure with an error message and no path.
C5_InstallReturnsOutcome ==
    Returned =>
        /\ ~inst.escaped
        /\ \/ /\ inst.result.success
              /\ DOMAIN inst.result = {"success", "destPath"}
              /\ inst.result.destPath # <<>>
           \/ /\ ~inst.result.success
              /\ DOMAIN inst.result = {"success", "error"}
              /\ inst.result.error # <<>>
              /\ inst.result.error[1] # ""

\* a retrieval step threw and install returned the failure
C5_Witness ==
    /\ Returned
    /\ ~inst.result.success
    /\ inst.result.error \in {<<"HTTP error">>, <<"Command failed: git clone">>,
                              <<"copy failed">>}

DoneCalls == {s \in DOMAIN call : call[s].pc = "done"}

\* the selected providers of call s whose fetch resolved, and those that threw
Fulfilled(s) == {o \in Range(call[s].toFetch) : call[s].status[o] = "fulfilled"}
Rejected(s) == {o \in Range(call[s].toFetch) : call[s].status[o] = "rejected"}

Urls(skills) == {skills[i].url : i \in 1..Len(skills)}

\* C7: when the fetch of a selected provider throws, the result still holds
\* every artifact (by url) of every other selected provider, and the errors
\* list has an entry attributed to the failing provider with a non-empty
\* message.
C7_FailureIsolatedAndAttributed ==
    \A s \in DoneCalls : \A bad \in Rejected(s) :
        /\ \A o \in Fulfilled(s) :
              Urls(call[s].skills[o]) \subseteq Urls(call[s].result.skills)
        /\ \E i \in 1..Len(call[s].result.errors) :
              /\ call[s].result.errors[i].sourceId = idOf[bad]
              /\ call[s].result.errors[i].error # ""

\* position of provider o in the selection, which is in registration order
Position(s, o) == CHOOSE i \in 1..Len(call[s].toFetch) : call[s].toFetch[i] = o

\* the providers of call s that returned an artifact with url u
Returning(s, u) == {o \in Fulfilled(s) : u \in Urls(call[s].skills[o])}

\* C8: whatever the order in which the fetches complete, a url returned by
\* several providers appears exactly once in the result, as the artifact of
\* the provider registered first among them.
C8_DedupKeepsFirstRegistered ==
    \A s \in DoneCalls : \A u \in {"u1", "u2"} :
        Returning(s, u) # {} =>
            LET first == CHOOSE o \in Returning(s, u) :
                            \A p \in Returning(s, u) : Position(s, o) <= Position(s, p)
                hits == {i \in 1..Len(call[s].result.skills) :
                            call[s].result.skills[i].url = u}
            IN  /\ Cardinality(hits) = 1
                /\ \A i \in hits : call[s].result.skills[i].source = idOf[first]

\* two providers were fetched and returned the same url
C8_Witness ==
    \E s \in DoneCalls : \E o, p \in Fulfilled(s) \cap call[s].invoked :
        /\ o # p
        /\ Urls(call[s].skills[o]) \cap Urls(call[s].skills[p]) # {}
        /\ Position(s, o) < Position(s, p)

FiveMinutes == 5 * 60 * 1000

\* C9: a selected provider's fetch is invoked exactly when forceRefresh was
\* requested, or it has no cache entry, or its entry is at least 5 minutes
\* old; otherwise the call takes the provider's cached artifacts.
C9_FetchOnlyWhenStaleOrForced ==
    \A s \in DOMAIN call : call[s].pc # "idle" =>
        \A o \in Range(call[s].toFetch) :
            LET c == call[s]
                must == \/ c.forceRefresh
                        \/ idOf[o] \notin DOMAIN c.startCache
                        \/ c.startNow - c.startCache[idOf[o]].timestamp >= FiveMinutes
            IN  /\ o \in c.invoked <=> must
                /\ ~must => /\ c.status[o] = "fulfilled"
                            /\ c.skills[o] = c.startCache[idOf[o]].skills

\* one provider was served from the cache while another, whose entry had
\* reached the age of 5 minutes, was fetched again
C9_Witness ==
    \E s \in DOMAIN call :
        /\ call[s].pc # "idle"
        /\ ~call[s].forceRefresh
        /\ \E o \in Range(call[s].toFetch) : o \notin call[s].invoked
        /\ \E o \in call[s].invoked :
              /\ idOf[o] \in DOMAIN call[s].startCache
              /\ call[s].startNow - call[s].startCache[idOf[o]].timestamp = FiveMinutes

\* C10: the per-source list of a result has exactly one entry for every
\* provider registered when the call returns.
C10_OneInfoPerRegisteredSource ==
    \A s \in DoneCalls : \A o \in Range(sources) :
        Cardinality({i \in 1..Len(call[s].result.sources) :
                        call[s].result.sources[i].id = idOf[o]}) = 1

\* a result with a disabled provider, an unselected one, a failed one and one
\* that returned nothing
C10_Witness ==
    \E s \in DoneCalls :
        /\ \E o \in Range(sources) : ~enabled[o] \/ o \notin Range(call[s].toFetch)
        /\ Rejected(s) # {}
        /\ \E o \in Fulfilled(s) : call[s].skills[o] = <<>>

(***************************************************************************)
(* Properties of parseUrl.                                                 *)
(***************************************************************************)
Parsed == req.fn = "parseUrl" /\ ret.done

\* the request is a blob URL whose path ends in SKILL.md or agent.md
BlobOfSkillOrAgent ==
    /\ Parsed
    /\ req.form = "blob"
    /\ \/ endsWith(req.path[Len(req.path)], <<"S","K","I","L","L",".","m","d">>)
       \/ endsWith(req.path[Len(req.path)], <<"a","g","e","n","t",".","m","d">>)

\* C11: for a GitHub blob URL whose path ends in SKILL.md or agent.md, parse
\* returns a folder descriptor whose subPath is the directory of that file,
\* with the branch, the owner and the repository of the URL.
C11_BlobOfSkillFileIsFolder ==
    BlobOfSkillOrAgent =>
        /\ ret.value.type = "folder"
        /\ pathComponents(ret.value.subPath) = dirname(req.path)
        /\ ret.value.branch = req.branch
        /\ ret.value.owner = req.owner
        /\ ret.value.repo = req.repo
        /\ ret.value.repoUrl
              = <<"h","t","t","p","s",":","/","/","g","i","t","h","u","b",".","c","o","m","/">> \o req.owner \o <<"/">> \o req.repo \o <<".","g","i","t">>

C11_Witness ==
    /\ BlobOfSkillOrAgent
    /\ Len(req.path) > 2
    /\ ret.value.type = "folder"
    /\ ret.value.subPath = <<"s","k","i","l","l","s","/","b">>

\* C12: for the scheme-less input owner/repo/sub/path parse returns a folder
\* descriptor with branch "main" and subPath sub/path; for owner/repo alone
\* it returns a repo descriptor.
C12_ShorthandFolderOrRepo ==
    (Parsed /\ req.form = "shorthand") =>
        /\ ret.value.owner = req.owner
        /\ ret.value.repo = req.repo
        /\ IF req.path # <<>>
           THEN /\ ret.value.type = "folder"
                /\ ret.value.branch = <<"m","a","i","n">>
                /\ ret.value.subPath = joinPath(req.path)
           ELSE ret.value.type = "repo"

C12_Witness ==
    /\ Parsed
    /\ req.form = "shorthand"
    /\ req.path = <<<<"s","u","b">>, <<"p","a","t","h">>>>
    /\ ret.value.type = "folder"

\* [a-z0-9_-]
NameChar(c) ==
    \/ \E i \in 1..26 : lowerCase[i] = c
    \/ c \in {"0", "1", "2", "3", "4", "5", "6", "7", "8", "9", "_", "-"}

\* C13: every descriptor parse returns has a proposedName that is non-empty
\* and consists only of characters of [a-z0-9_-].
C13_ProposedNameIsSafe ==
    (Parsed /\ ret.value.type # "null") =>
        /\ ret.value.skillName # <<>>
        /\ \A i \in 1..Len(ret.value.skillName) : NameChar(ret.value.skillName[i])


(***************************************************************************)
(* Properties of detectTypeFromContent.                                    *)
(***************************************************************************)
Classified == req.fn = "detectTypeFromContent" /\ req.isDirectory /\ ret.done

\* a subdirectory named as one of names, or a file whose name contains word
Indicates(names, word) ==
    \E e \in req.entries :
        IF e.dir THEN toLowerCase(e.name) \in names
        ELSE includes(toLowerCase(e.name), word)

SkillIndicated == Indicates({<<"s","k","i","l","l","s">>}, <<"s","k","i","l","l">>)
CommandIndicated == Indicates({<<"c","o","m","m","a","n","d","s">>}, <<"c","o","m","m","a","n","d">>)
AgentIndicated == Indicates({<<"a","g","e","n","t","s">>, <<"s","u","b","a","g","e","n","t">>, <<"s","u","b","a","g","e","n","t","s">>}, <<"a","g","e","n","t">>)

IndicatorCount ==
    Cardinality({i \in {"skill", "command", "agent"} :
                    \/ i = "skill" /\ SkillIndicated
                    \/ i = "command" /\ CommandIndicated
                    \/ i = "agent" /\ AgentIndicated})

HasDir(name) == [name |-> name, dir |-> TRUE] \in req.entries

\* C14: for a directory classify returns plugin when two or more of the
\* skill, command and agent indicators are present, the indicated type when
\* exactly one is, and skill when none is; commands/ plus agents/ gives
\* plugin, commands/ alone gives command.
C14_ClassifyByIndicatorCount ==
    Classified =>
        /\ IndicatorCount >= 2 => ret.value = "plugin"
        /\ IndicatorCount = 1 =>
              ret.value = (IF SkillIndicated THEN "skill"
                           ELSE IF CommandIndicated THEN "command" ELSE "agent")
        /\ IndicatorCount = 0 => ret.value = "skill"
        /\ (HasDir(<<"c","o","m","m","a","n","d","s">>) /\ HasDir(<<"a","g","e","n","t","s">>)) => ret.value = "plugin"
        /\ req.entries = {[name |-> <<"c","o","m","m","a","n","d","s">>, dir |-> TRUE]} => ret.value = "command"

C14_Witness ==
    /\ Classified
    /\ req.entries = {[name |-> <<"c","o","m","m","a","n","d","s">>, dir |-> TRUE],
                      [name |-> <<"a","g","e","n","t","s">>, dir |-> TRUE]}
    /\ ret.value = "plugin"


(***************************************************************************)
(* Properties of the retrieval strategies.                                 *)
(***************************************************************************)
\* the call was a gist install and the metadata request was answered
GistAnswered == Returned /\ inst.parsed.type = "gist" /\ inst.gotGist

\* the extension a file name carries, ".md" when it carries none
OwnExtension(name) ==
    IF lastDot(name) > 1 THEN SubSeq(name, lastDot(name), Len(name)) ELSE <<".","m","d">>

\* the body of the k-th file of the gist: inline, or else as fetched
GistBody(k) ==
    IF inst.files[k].content # "" THEN inst.files[k].content
    ELSE inst.fetched[CHOOSE j \in 1..Len(inst.fetched) : inst.fetched[j].file = k].body

\* C15: a gist without files fails with the empty-gist error and writes
\* nothing; a gist of one file is written at destination + the file's own
\* extension (.md when it has none); a gist of several files becomes a
\* directory at destination that holds every file; and a raw body is fetched
\* only for a file that came without inline content.
C15_GistRetrieval ==
    GistAnswered =>
        LET files == inst.files
            dest == inst.result.destPath
        IN  /\ Len(files) = 0 =>
                  /\ ~inst.result.success
                  /\ inst.result.error = <<"Gist has no files">>
                  /\ fs = inst.pre
            /\ (Len(files) = 1 /\ inst.result.success) =>
                  /\ dest = withExt(inst.destPath, OwnExtension(files[1].filename))
                  /\ dest \in DOMAIN fs
                  /\ fs[dest] = GistBody(1)
            /\ (Len(files) > 1 /\ inst.result.success) =>
                  /\ inst.installedPath = inst.destPath
                  /\ isDirectory(fs, dest)
                  /\ \A k \in 1..Len(files) :
                        /\ dest \o <<files[k].filename>> \in DOMAIN fs
                        /\ fs[dest \o <<files[k].filename>>] = GistBody(k)
            /\ \A j \in 1..Len(inst.fetched) :
                  /\ files[inst.fetched[j].file].content = ""
                  /\ \A h \in 1..Len(inst.fetched) :
                        inst.fetched[h].file = inst.fetched[j].file => h = j

\* a gist of two files, one inline and one fetched, was installed
C15_Witness ==
    /\ GistAnswered
    /\ inst.result.success
    /\ Len(inst.files) = 2
    /\ Len(inst.fetched) = 1
    /\ inst.files[1].content # ""

\* the call was a folder or repo-root install
FolderInstall == inst.parsed.type \in {"folder", "repo"}

\* the paths below p, relative to p
Below(f, p) ==
    {SubSeq(q, Len(p) + 1, Len(q)) : q \in {r \in DOMAIN f : IsPrefix(p, r) /\ r # p}}

\* C16: after a successful folder or repo-root install the destination holds
\* exactly the files and directories of the located source path, at the same
\* relative paths and with the same contents, except for .git and what is
\* inside it.
C16_CopyReproducesSource ==
    (Returned /\ FolderInstall /\ inst.result.success) =>
        LET dest == inst.result.destPath
            src == inst.located.src
            kept == {r \in DOMAIN src \ {<<>>} :
                        \A n \in 1..Len(r) : r[n] # <<".","g","i","t">>}
        IN  /\ dest \in DOMAIN fs
            /\ fs[dest] = src[<<>>]
            /\ Below(fs, dest) = kept
            /\ \A r \in kept : fs[dest \o r] = src[r]

\* a repository root, with its .git directory and a nested file, was copied
C16_Witness ==
    /\ Returned
    /\ FolderInstall
    /\ inst.result.success
    /\ inst.located.how = "root"
    /\ <<<<".","g","i","t">>, <<"H","E","A","D">>>> \in DOMAIN inst.located.src
    /\ \E r \in Below(fs, inst.result.destPath) : Len(r) = 2

\* the descriptor parseUrl returns for the gist URL of the example
GistExample == parseUrl(<<"h","t","t","p","s",":","/","/","g","i","s","t",".","g","i","t","h","u","b",".","c","o","m","/","a","l","i","c","e","/","a","b","c","1","2","3">>)

\* install(GistExample, scope) returned success for a gist of two files
GistExampleInstalled ==
    /\ Returned
    /\ inst.parsed.type = GistExample.type
    /\ inst.parsed.skillName = GistExample.skillName
    /\ inst.parsed.skillType = GistExample.skillType
    /\ inst.gotGist
    /\ Len(inst.files) = 2
    /\ inst.result.success

\* both files of the gist are in the directory dest, verbatim
HoldsBothFiles(dest) ==
    /\ isDirectory(fs, dest)
    /\ Below(fs, dest) = {<<inst.files[k].filename>> : k \in 1..2}
    /\ \A k \in 1..2 : fs[dest \o <<inst.files[k].filename>>] = GistBody(k)

\* C17 as stated: parsing and installing https://gist.github.com/alice/abc123
\* with a gist of two files gives the directory
\* <scopeRoot>/skills/gist-abc123ab/ that holds both files verbatim.
C17_GistExampleAsStated ==
    GistExampleInstalled =>
        /\ inst.result.destPath
              = destRoot(inst.scope) \o <<<<"s","k","i","l","l","s">>, <<"g","i","s","t","-","a","b","c","1","2","3","a","b">>>>
        /\ HoldsBothFiles(inst.result.destPath)

\* some file name of the gist contains word
GistNameHas(word) ==
    \E k \in 1..Len(inst.files) : includes(toLowerCase(inst.files[k].filename), word)

\* the container of the type the names of the gist's files indicate
GistContainer ==
    LET n == Cardinality({w \in {<<"s","k","i","l","l">>, <<"c","o","m","m","a","n","d">>, <<"a","g","e","n","t">>} : GistNameHas(w)})
    IN  IF n >= 2 THEN <<"p","l","u","g","i","n","s">>
        ELSE IF GistNameHas(<<"a","g","e","n","t">>) THEN <<"a","g","e","n","t","s">>
        ELSE IF GistNameHas(<<"c","o","m","m","a","n","d">>) THEN <<"c","o","m","m","a","n","d","s">>
        ELSE <<"s","k","i","l","l","s">>

\* C17 amended: the directory is named gist-abc123 (the whole id, which has
\* fewer than 8 characters) and lies under the container of the type the
\* file names indicate, skills/ when they indicate none; it holds both files
\* verbatim.
C17_GistExampleDirectory ==
    GistExampleInstalled =>
        /\ inst.result.destPath
              = destRoot(inst.scope) \o <<GistContainer, <<"g","i","s","t","-","a","b","c","1","2","3">>>>
        /\ HoldsBothFiles(inst.result.destPath)

\* the example with two files whose names indicate no type
C17_Witness ==
    /\ GistExampleInstalled
    /\ GistContainer = <<"s","k","i","l","l","s">>
    /\ inst.result.destPath = destRoot(inst.scope) \o <<<<"s","k","i","l","l","s">>, <<"g","i","s","t","-","a","b","c","1","2","3">>>>

\* the body installFile fetched
FileBody == inst.fetched[1].body

\* C18: a single-file or raw-file install whose fetched body has fewer than 4
\* bytes, or begins with an HTML marker, fails with the unexpected-content
\* error and writes no file at the destination.
C18_ShortOrHtmlBodyRejected ==
    (/\ Returned
     /\ inst.parsed.type \in {"file", "raw"}
     /\ Len(inst.fetched) = 1
     /\ FileBody # "ERR"
     /\ (Len(FileBody) < 4 \/ FileBody = "<html>")) =>
        /\ ~inst.result.success
        /\ inst.result.error = <<"Received HTML instead of raw content">>
        /\ \A q \in DOMAIN fs :
              IsPrefix(inst.destPath, q) \/ IsPrefix(withExt(inst.destPath, <<".","m","d">>), q)
                 => q \in DOMAIN inst.pre /\ fs[q] = inst.pre[q]

\* C19: one folder or repo-root install clones at most twice: first with the
\* branch named, a second time without it and only after the first attempt
\* failed; when the second attempt fails too, install returns a failure.
C19_AtMostTwoClones ==
    FolderInstall =>
        LET a == inst.attempts
        IN  /\ Len(a) <= 2
            /\ Len(a) >= 1 => a[1].pinned
            /\ Len(a) = 2 => ~a[1].ok /\ ~a[2].pinned
            /\ (Len(a) = 2 /\ ~a[2].ok) =>
                  /\ Returned
                  /\ ~inst.result.success
                  /\ inst.result.error = <<"Command failed: git clone">>

\* both attempts were made and both failed
C19_Witness ==
    /\ Returned
    /\ FolderInstall
    /\ Len(inst.attempts) = 2
    /\ ~inst.attempts[2].ok

\* the top-level directories of the clone whose name contains the subpath,
\* case-insensitively
MatchingDirs ==
    {e \in inst.located.top :
        e.dir /\ includes(toLowerCase(e.name), toLowerCase(joinPath(inst.parsed.subPath)))}

\* C20: the literal subpath is used whenever it exists in the clone; only
\* otherwise a top-level directory whose name contains the subpath
\* (case-insensitively) is used; without such a directory install fails with
\* the path-not-found error that lists the top-level entries.
C20_FuzzyMatchOnDirectories ==
    (Returned /\ inst.parsed.type = "folder" /\ inst.located.how # "none") =>
        LET literal == \E e \in inst.located.top : <<e.name>> = inst.parsed.subPath
        IN  /\ literal => inst.located.how = "literal" /\ inst.located.rel = inst.parsed.subPath
            /\ (~literal /\ MatchingDirs # {}) =>
                  /\ inst.located.how = "fuzzy"
                  /\ \E e \in MatchingDirs : inst.located.rel = <<e.name>>
            /\ (~literal /\ MatchingDirs = {}) =>
                  /\ inst.located.how = "missing"
                  /\ ~inst.result.success
                  /\ inst.result.error = <<"Path not found in repo. Available:",
                                           {e.name : e \in inst.located.top}>>

(***************************************************************************)
(* Further properties of parseUrl.                                         *)
(***************************************************************************)
\* C21: a blob URL is read as a folder only when its file is literally named
\* SKILL.md or agent.md; every other blob URL parses to a single-file
\* descriptor with the raw-content URL
\* https://raw.githubusercontent.com/<owner>/<repo>/<branch>/<path>.
C21_BlobFolderOnlyForLiteralNames ==
    (Parsed /\ req.form = "blob") =>
        IF req.path[Len(req.path)] \in {<<"S","K","I","L","L",".","m","d">>, <<"a","g","e","n","t",".","m","d">>}
        THEN ret.value.type = "folder"
        ELSE /\ ret.value.type = "file"
             /\ ret.value.rawUrl
                   = <<"h","t","t","p","s",":","/","/","r","a","w",".","g","i","t","h","u","b","u","s","e","r","c","o","n","t","e","n","t",".","c","o","m","/">> \o req.owner \o <<"/">>
                        \o req.repo \o <<"/">> \o req.branch \o <<"/">>
                        \o joinPath(req.path)

\* the type the keywords of one path component indicate, plugin first
TypeOfComponent(c) ==
    LET lower == toLowerCase(c)
    IN  IF includes(lower, <<"p","l","u","g","i","n">>) THEN "plugin"
        ELSE IF includes(lower, <<"a","g","e","n","t">>) \/ includes(lower, <<"s","u","b","a","g","e","n","t">>) THEN "agent"
        ELSE IF includes(lower, <<"c","o","m","m","a","n","d">>) THEN "command"
        ELSE "skill"

\* the path component of the request that the name is derived from
NameComponent ==
    IF ret.value.type \in {"file", "raw"} THEN req.path[Len(req.path)]
    ELSE IF req.form = "blob"
         THEN (IF Len(req.path) > 1 THEN req.path[Len(req.path) - 1] ELSE <<".">>)
    ELSE IF req.path # <<>> THEN req.path[Len(req.path)]
    ELSE req.repo

\* C22: the proposedType is the type the keywords of the path component used
\* for the name indicate, plugin before agent/subagent before command, skill
\* without a keyword; gist and repo-root descriptors always get skill.
C22_ProposedTypeFromNameComponent ==
    (Parsed /\ ret.value.type # "null") =>
        ret.value.skillType
            = IF ret.value.type \in {"gist", "repo"} THEN "skill"
              ELSE TypeOfComponent(NameComponent)

(***************************************************************************)
(* Classification of a single file.                                        *)
(***************************************************************************)
ClassifiedFile == req.fn = "detectTypeFromContent" /\ ~req.isDirectory /\ ret.done

\* the file name of the request contains word, in any case
NameHas(word) == includes(toLowerCase(req.file), word)

\* C23: for a single file classify returns agent when the file name contains
\* agent or subagent, else command when it contains command, else plugin when
\* it contains plugin, else skill, whatever the proposed type and the
\* directory the file lies in.
C23_FileClassifiedByNameOnly ==
    ClassifiedFile =>
        ret.value = IF NameHas(<<"a","g","e","n","t">>) \/ NameHas(<<"s","u","b","a","g","e","n","t">>) THEN "agent"
                    ELSE IF NameHas(<<"c","o","m","m","a","n","d">>) THEN "command"
                    ELSE IF NameHas(<<"p","l","u","g","i","n">>) THEN "plugin"
                    ELSE "skill"

\* a file without a keyword that lies under agents/ is a skill, and a file
\* whose name holds two keywords is classified by the first in the order
C23_Witness ==
    /\ ClassifiedFile
    /\ \/ req.file = <<"f","o","o",".","m","d">> /\ req.proposed = "agent" /\ ret.value = "skill"
       \/ req.file = <<"C","o","m","m","a","n","d","-","P","l","u","g","i","n",".","m","d">> /\ req.proposed = "skill"
            /\ ret.value = "command"

(***************************************************************************)
(* Properties of fetchContent.                                             *)
(***************************************************************************)
\* C24: a fetch follows at most 5 redirects: a chain of 5 or fewer redirects
\* that ends in a success response gives that response's body, a longer
\* chain fails with the too-many-redirects error, and no fetch issues more
\* than 6 requests.
C24_AtMostFiveRedirects ==
    (req.fn = "fetchContent" /\ ret # NoRet) =>
        /\ ret.requests <= 6
        /\ ret.done =>
              IF req.chain > 5
              THEN ret.value = [ok |-> FALSE, error |-> "Too many redirects"]
              ELSE /\ ret.requests = req.chain + 1
                   /\ req.final \in {"text1", "ok"} =>
                         ret.value = [ok |-> TRUE, data |-> req.final]

\* a chain of exactly 5 redirects was followed to its body
C24_Witness ==
    /\ req.fn = "fetchContent"
    /\ ret.done
    /\ req.chain = 5
    /\ ret.requests = 6
    /\ ret.value = [ok |-> TRUE, data |-> "text1"]

(***************************************************************************)
(* Properties of the cache under failing and overlapping fetches.          *)
(***************************************************************************)
\* the providers call s took from the cache
ServedFromCache(s) ==
    IF call[s].pc = "idle" THEN {} ELSE Range(call[s].toFetch) \ call[s].invoked

\* C25: the empty outcome of a failed provider fetch is not stored in the
\* cache: no entry of a provider whose catalog is not empty holds an empty
\* list, and what a call without forceRefresh serves from the cache is a list
\* that a fetch of the provider returned.
C25_FailedFetchNotCached ==
    /\ \A o \in SourceObjs :
          (idOf[o] \in DOMAIN cache /\ <<>> \notin Outputs(o)) =>
              cache[idOf[o]].skills # <<>>
    /\ \A s \in DOMAIN call : \A o \in ServedFromCache(s) :
          call[s].skills[o] \in Outputs(o)

\* the provider fetch of o in call s completes in this step
Completes(s, o) ==
    /\ call[s].pc = "pending"
    /\ o \in DOMAIN call[s].status
    /\ call[s].status[o] = "pending"
    /\ call'[s].status[o] = "fulfilled"

\* C26: under every interleaving of overlapping fetchAll calls, an entry of
\* the cache changes only by being replaced whole with the list of one
\* provider fetch that completes and the time of its completion, and a call
\* that starts takes from the cache whole lists as they are stored.
C26_EntriesReplacedWhole ==
    [][/\ \A o \in SourceObjs :
            (/\ idOf[o] \in DOMAIN cache'
             /\ idOf[o] \in DOMAIN cache => cache'[idOf[o]] # cache[idOf[o]]) =>
                \E s \in DOMAIN call :
                    /\ Completes(s, o)
                    /\ cache'[idOf[o]] = [skills |-> call'[s].skills[o], timestamp |-> now]
       /\ \A s \in DOMAIN call :
            (call[s].pc # "pending" /\ call'[s] # call[s] /\ call'[s].pc # "idle") =>
                \A o \in Range(call'[s].toFetch) \ call'[s].invoked :
                    call'[s].skills[o] = cache[idOf[o]].skills]_vars

\* two calls overlap and the later one took the entry that a fetch of the
\* earlier one had stored
C26_Witness ==
    /\ call[1].pc = "pending"
    /\ call[2].pc = "pending"
    /\ \E o \in ServedFromCache(2) :
          /\ o \in call[1].invoked
          /\ call[1].status[o] = "fulfilled"
          /\ call[2].skills[o] = call[1].skills[o]

(***************************************************************************)
(* isValidInput against parseUrl.                                          *)
(***************************************************************************)
\* C27: isValidInput returns true for every input for which parse returns a
\* descriptor.
C27_ValidWheneverParseable ==
    (req.fn = "isValidInput" /\ ret.done /\ parseUrl(req.input) # Null) =>
        ret.value = TRUE

(***************************************************************************)
(* Relocation of a single file, and the paths install touches.             *)
(***************************************************************************)
\* C28: when a single file is moved because the type derived from it differs
\* from proposedType, the file keeps the name and extension under which the
\* retrieval wrote it; only its container directory changes.
C28_RelocationKeepsFileName ==
    (/\ Returned
     /\ inst.result.success
     /\ inst.actualType # inst.parsed.skillType
     /\ ~isDirectory(fs, inst.result.destPath)) =>
        /\ basename(inst.result.destPath) = basename(inst.installedPath)
        /\ dirname(inst.result.destPath)
              = destRoot(inst.scope) \o <<containerMap[inst.actualType]>>

\* the paths that differ between the file system and the one install found
Touched ==
    {p \in DOMAIN fs \cup DOMAIN inst.pre :
        p \notin DOMAIN fs \/ p \notin DOMAIN inst.pre \/ fs[p] # inst.pre[p]}

\* p lies inside one of the four container directories of the scope
InContainer(p, scope) ==
    \E t \in DOMAIN containerMap :
        LET c == destRoot(scope) \o <<containerMap[t]>>
        IN  Len(p) > Len(c) /\ IsPrefix(c, p)

\* C29: every path install creates, writes, renames to or deletes lies inside
\* <scopeRoot>/<skills|agents|commands|plugins>/ or the scratch clone
\* directory; the scope root and the container directories themselves may be
\* created as directories on the way.
C29_InstallStaysInContainers ==
    inst.pc # "idle" =>
        \A p \in Touched :
            \/ InContainer(p, inst.scope)
            \/ IsPrefix(<<tmpdir>>, p)
            \/ /\ p \in {destRoot(inst.scope)}
                        \cup {destRoot(inst.scope) \o <<containerMap[t]>> :
                                  t \in DOMAIN containerMap}
               /\ p \in DOMAIN fs /\ fs[p] = "dir" /\ p \notin DOMAIN inst.pre

(***************************************************************************)
(* The cache and the registry.                                             *)
(***************************************************************************)
\* the source object registered under id, when there is one
RegisteredAs(id) == {o \in Range(sources) : idOf[o] = id}

\* C30: after any sequence of registerSource, unregisterSource,
\* loadCustomSources, clearCache and fetchAll calls, every cache entry belongs
\* to a currently registered source and holds a list that this very source
\* object fetched; and a finished fetchAll reports for every provider a list
\* the provider itself fetched.
C30_CacheEntriesOfRegisteredSources ==
    /\ \A id \in DOMAIN cache :
          \E o \in RegisteredAs(id) : cache[id].skills \in Outputs(o)
    /\ \A s \in DoneCalls : \A o \in Fulfilled(s) :
          call[s].skills[o] \in Outputs(o)

====
